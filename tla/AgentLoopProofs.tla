-------------------------- MODULE AgentLoopProofs --------------------------
(***************************************************************************)
(* Proofs about AgentLoop, for any set of requests, any subset of the      *)
(* providers, any limits and any credentials.  The inductive invariant is  *)
(* built in layers:                                                        *)
(*   TypesInv     the types, with those of whole threads                   *)
(*   PhaseInv     what a thread's place says about its use and provider    *)
(*   CredsInv     what the provider table says about the credentials, and  *)
(*                that a thread past the lookup has a provider that works  *)
(*   TokenInv     threads at the token exclude each other, until two meet  *)
(*   ToldInv      what the TUI was told fits the thread's place            *)
(*   RoundsInv    the rounds of tool calls in the chat are those counted   *)
(*   HistInv      the calls in the chat are followed by their results, as  *)
(*                far as they were carried out                             *)
(***************************************************************************)
EXTENDS AgentLoop, SequenceTheorems, FiniteSetTheorems, WellFoundedInduction, TLAPS

Uses == {"main", "sub", "name"}
Told == {"start", "end", "final", "error", "rename"}

\* A thread of a request, with all its fields.
Thread ==
    [pc : Pcs, use : Uses, id : Providers, prov : Providers, first : BOOLEAN,
     iters : 0..MaxToolIters, hist : Seq(Message), calls : Seq(Call), content : Contents]

TypesInv ==
    /\ config \in Configs
    /\ initialized \in [Providers -> {-1, 0, 1}]
    /\ th \in [Requests -> Thread]
    /\ \A r \in Requests : Len(th[r].calls) <= MaxCalls
    /\ out \in [Requests -> Seq(Told)]
    /\ token \in {"none", "live", "freed"}
    /\ fresh \in BOOLEAN /\ shared \in BOOLEAN /\ misused \in BOOLEAN
    /\ expiries \in 0..MaxExpiries

\* A thread's place, its use and its provider fit each other; a sub-query is
\* made for the first of the calls that are left.
PhaseOK(t) ==
    /\ t.pc \in {"idle", "tools", "final", "done"} => t.use = "main"
    /\ t.pc = "end_sub" => t.use = "sub"
    /\ t.pc \in {"exchange", "expiry", "bearer"} => t.prov = "ibm"
    /\ t.use = "name" => t.prov = "xai"
    /\ t.use = "main" /\ t.pc \notin {"idle", "done"} => t.prov = t.id
    /\ t.use = "sub" => t.calls # <<>> /\ Head(t.calls) \in Providers

PhaseInv == \A r \in Requests : PhaseOK(th[r])

\* An entry of the provider table is what the provider's init returned.
TableInv ==
    \A p \in Providers :
        /\ initialized[p] = 1 => InitSucceeds(p)
        /\ initialized[p] = -1 => ~InitSucceeds(p)

\* Places behind get_provider, until the answer came.
Asks == {"send", "exchange", "expiry", "bearer", "wait"}

\* What a thread, and what was told of its request, rely on in the table.
ReliesOK(r) ==
    /\ th[r].pc = "looked" => initialized[th[r].prov] # 0
    /\ th[r].pc \in Asks => initialized[th[r].prov] = 1
    /\ th[r].use = "sub" \/ th[r].pc = "tools" => initialized[th[r].id] = 1
    /\ th[r].use = "sub" =>
          \/ th[r].prov = Head(th[r].calls)
          \/ th[r].prov = "xai" /\ initialized[Head(th[r].calls)] = -1
    /\ th[r].pc = "idle" => out[r] = <<>>
    /\ \A i \in 1..Len(out[r]) : out[r][i] = "error" => initialized[th[r].id] = -1

CredsInv == TableInv /\ \A r \in Requests : ReliesOK(r)

\* Until two threads are at work on the token at once, at most one is; only
\* while it exchanges the token is iam_token dangling, and when it is past
\* that, the token is there.
TokenInv ==
    ~shared =>
        /\ ~misused
        /\ \A q, r \in Requests : Busy(q) /\ Busy(r) => q = r
        /\ token = "freed" => \E r \in Requests : th[r].pc = "exchange"
        /\ \A r \in Requests : th[r].pc \in {"expiry", "bearer"} => token = "live"

\* What the TUI was told of a request is in order: sub-queries one at a time,
\* an answer last, or before the name, an error alone.
Orderly(o) ==
    \A i \in 1..Len(o) :
        /\ o[i] \in {"final", "error"} =>
              /\ i > 1 => o[i - 1] = "end"
              /\ i = Len(o) \/ (i + 1 = Len(o) /\ o[Len(o)] = "rename")
        /\ o[i] = "error" => Len(o) = 1
        /\ o[i] = "end" => i > 1 /\ o[i - 1] = "start"
        /\ o[i] = "start" => i = 1 \/ o[i - 1] = "end"
        /\ o[i] = "rename" => i > 1 /\ o[i - 1] = "final"

Ends(o, kind) == o # <<>> /\ o[Len(o)] = kind

\* ... and goes with the place of the thread.
ToldOK(r) ==
    /\ Orderly(out[r])
    /\ th[r].pc = "idle" \/ (th[r].use = "main" /\ th[r].pc \in {"lookup", "looked"}) =>
          out[r] = <<>>
    /\ th[r].use = "main" /\ th[r].pc \in Asks \cup {"tools", "final"} =>
          out[r] = <<>> \/ Ends(out[r], "end")
    /\ th[r].use = "sub" => Ends(out[r], "start")
    /\ th[r].use = "name" => Ends(out[r], "final")

ToldInv == \A r \in Requests : ToldOK(r)

\* iters is one ahead of the rounds in the chat while a reply is awaited, and
\* level with them while a reply's calls are carried out.
RoundsOK(r) ==
    /\ th[r].use = "name" \/ th[r].pc \in {"idle", "done"} => Rounds(r) = 0
    /\ th[r].use = "main" /\ th[r].pc \in {"lookup", "looked"} => Rounds(r) = 0
    /\ th[r].use = "main" /\ th[r].pc \in Asks => th[r].iters = Rounds(r) + 1
    /\ th[r].use = "sub" \/ th[r].pc = "tools" => th[r].iters = Rounds(r)
    /\ th[r].pc = "final" => \/ th[r].iters = Rounds(r) + 1
                             \/ th[r].iters = Rounds(r) /\ Rounds(r) = MaxToolIters

RoundsInv == \A r \in Requests : RoundsOK(r)

\* The calls in the chat hist have their results right behind them, in order;
\* the last results are still missing, if the last c calls are not done.
Pending(hist, c) ==
    \A i \in 1..Len(hist) : hist[i].kind = "calls" =>
        /\ i + hist[i].n <= Len(hist) \/ i + hist[i].n = Len(hist) + c
        /\ \A k \in 1..hist[i].n : i + k <= Len(hist) =>
              hist[i + k].kind = "result" /\ hist[i + k].n = hist[i].n + 1 - k

\* The calls of the last reply that are not done.
ToDo(t) == IF t.use = "sub" \/ t.pc = "tools" THEN Len(t.calls) ELSE 0

\* A chat begins with the user, and holds calls only if they go to xAI.
HistOK(t) ==
    /\ t.use # "name" /\ t.pc \notin {"idle", "done"} => t.hist # <<>> /\ t.hist[1].kind = "user"
    /\ Pending(t.hist, ToDo(t))
    /\ t.id # "xai" =>
         /\ t.pc # "tools" /\ t.use # "sub"
         /\ \A i \in 1..Len(t.hist) : t.hist[i].kind \in {"user", "assistant"}

HistInv == \A r \in Requests : HistOK(th[r])

IInv == TypesInv /\ PhaseInv /\ CredsInv /\ TokenInv /\ ToldInv /\ RoundsInv /\ HistInv

-----------------------------------------------------------------------------
(* Type correctness.                                                       *)

\* What an assistant's reply adds to a chat, and a tool's result, are messages.
LEMMA MessageTypes ==
    /\ User \in Message
    /\ \A text \in BOOLEAN : Msg("assistant", 0, text) \in Message
    /\ \A n \in 0..MaxCalls, text \in BOOLEAN : Msg("calls", n, text) \in Message
    /\ \A n \in 0..MaxCalls : Msg("result", n, TRUE) \in Message
  BY AgentAssumption DEF User, Msg, Message

\* The chat a request comes with is a sequence of messages.
LEMMA AskedType == ASSUME NEW first \in BOOLEAN PROVE Asked(first) \in Seq(Message)
<1>1. User \in Message /\ Msg("assistant", 0, TRUE) \in Message
  BY MessageTypes
<1>2. \A m, n \in Message : <<m>> \in Seq(Message) /\ <<m, n, m>> \in Seq(Message)
  OBVIOUS
<1>3. QED
  BY <1>1, <1>2 DEF Asked

\* A thread that does nothing.
LEMMA IdleType == Idle \in Thread /\ Len(Idle.calls) <= MaxCalls
<1>1. "xai" \in Providers /\ 0 \in 0..MaxToolIters /\ MaxCalls \in Nat
  BY AgentAssumption
<1>2. <<>> \in Seq(Message) /\ <<>> \in Seq(Call)
  OBVIOUS
<1>3. Idle \in Thread
  BY <1>1, <1>2 DEF Idle, Thread, Pcs, Uses, Contents
<1>4. QED
  BY <1>1, <1>3 DEF Idle

\* A reply has a content and calls within the bound.
LEMMA ReplyTypes ==
    ASSUME NEW r \in Requests, th[r].prov \in Providers, NEW reply \in Replies(r)
    PROVE  /\ reply.content \in Contents
           /\ reply.calls \in Seq(Call)
           /\ Len(reply.calls) \in 0..MaxCalls
<1>1. th[r].prov \in {"xai", "anthropic", "google", "ibm"}
  BY AgentAssumption
<1>2. \/ reply \in XaiReplies(SupportsTools(r))
      \/ reply \in {Plain(c) : c \in Contents}
  BY <1>1 DEF Replies, AnthropicReplies, GoogleReplies, IbmReplies
<1> DEFINE NoCalls == <<>>
<1>n. NoCalls \in Seq(Call) /\ Len(NoCalls) \in 0..MaxCalls
  BY AgentAssumption
<1>3. CASE reply \in {Plain(c) : c \in Contents}
  <2>1. reply.content \in Contents /\ reply.calls = NoCalls
    BY <1>3 DEF Plain
  <2>2. QED
    BY <2>1, <1>n
<1>4. CASE reply \in XaiReplies(SupportsTools(r))
  <2>1. /\ reply.content \in Contents
        /\ reply.calls = <<>> \/ \E n \in 0..MaxCalls : reply.calls \in [1..n -> CallKinds]
    BY <1>4 DEF XaiReplies
  <2>2. CallKinds \subseteq Call /\ MaxCalls \in Nat
    BY AgentAssumption
  <2>3. ASSUME NEW n \in 0..MaxCalls, reply.calls \in [1..n -> CallKinds]
        PROVE  reply.calls \in Seq(Call) /\ Len(reply.calls) = n
    <3>1. reply.calls \in [1..n -> Call]
      BY <2>2, <2>3
    <3>2. QED
      BY <3>1, <2>2
  <2>4. QED
    BY <2>1, <2>3, <1>n, Zenon
<1>5. QED
  BY <1>2, <1>3, <1>4


\* What the threads and their chats keep of their types.
ThreadsInv ==
    /\ th \in [Requests -> Thread]
    /\ \A r \in Requests : Len(th[r].calls) <= MaxCalls

\* A thread that goes somewhere else, and nothing more, keeps its types.
LEMMA GotoTypes ==
    ASSUME ThreadsInv, NEW r \in Requests, NEW pc \in Pcs, Goto(r, pc)
    PROVE  ThreadsInv'
  BY DEF ThreadsInv, Goto, Thread

\* So does a thread that becomes another one of the type.
LEMMA ChangeTypes ==
    ASSUME ThreadsInv, NEW r \in Requests, NEW t \in Thread, Len(t.calls) <= MaxCalls,
           th' = [th EXCEPT ![r] = t]
    PROVE  ThreadsInv'
<1>1. th' \in [Requests -> Thread]
  BY DEF ThreadsInv
<1>2. \A q \in Requests : th'[q] = IF q = r THEN t ELSE th[q]
  BY DEF ThreadsInv
<1>3. QED
  BY <1>1, <1>2 DEF ThreadsInv

\* A thread that ends keeps the provider's id and has no calls.
LEMMA FinishTypes ==
    ASSUME ThreadsInv, NEW r \in Requests, Finish(r)
    PROVE  ThreadsInv'
<1> DEFINE t == [Idle EXCEPT !.pc = "done", !.id = th[r].id]
<1>1. th[r].id \in Providers /\ "done" \in Pcs
  BY DEF ThreadsInv, Thread, Pcs
<1>2. t \in Thread
  BY <1>1, IdleType DEF Thread
<1>3. Len(t.calls) <= MaxCalls
  BY IdleType DEF Thread
<1>4. QED
  BY <1>2, <1>3, ChangeTypes DEF Finish

\* What is told to the TUI is one of the messages it knows.
LEMMA TellTypes ==
    ASSUME out \in [Requests -> Seq(Told)], NEW r \in Requests, NEW kind \in Told, Tell(r, kind)
    PROVE  out' \in [Requests -> Seq(Told)]
  BY AppendProperties DEF Tell

\* No step of a thread breaks a type.
LEMMA StepTypes ==
    ASSUME TypesInv, PhaseInv, NEW r \in Requests, AgentStep(r) PROVE TypesInv'
<1>1. ThreadsInv
  BY DEF TypesInv, ThreadsInv
<1>2. th[r] \in Thread /\ Len(th[r].calls) <= MaxCalls
  BY DEF TypesInv
<1>3. /\ th[r].id \in Providers /\ th[r].prov \in Providers
      /\ th[r].iters \in 0..MaxToolIters /\ th[r].hist \in Seq(Message)
      /\ th[r].calls \in Seq(Call) /\ th[r].content \in Contents
  BY <1>2 DEF Thread
<1>4. /\ Pcs = {"idle", "lookup", "looked", "send", "exchange", "expiry", "bearer", "wait",
                "tools", "end_sub", "final", "done"}
      /\ MaxToolIters \in Nat \ {0} /\ MaxCalls \in Nat /\ "xai" \in Providers
  BY AgentAssumption DEF Pcs
<1> USE DEF tokenVars
<1>5. CASE InitProvider(r)
  <2>1. initialized' \in [Providers -> {-1, 0, 1}]
    BY <1>3, <1>5 DEF InitProvider, TypesInv
  <2>2. ThreadsInv'
    BY <1>1, <1>4, <1>5, GotoTypes DEF InitProvider
  <2>3. QED
    BY <1>5, <2>1, <2>2 DEF InitProvider, TypesInv, ThreadsInv
<1>6. CASE HasProvider(r)
  <2> DEFINE iters == IF th[r].use = "main" THEN 1 ELSE th[r].iters
             t == [th[r] EXCEPT !.pc = "send", !.iters = iters]
  <2>1. iters \in 0..MaxToolIters
    BY <1>3, <1>4
  <2>2. t \in Thread /\ t.calls = th[r].calls
    BY <1>2, <1>4, <2>1 DEF Thread
  <2>3. th' = [th EXCEPT ![r] = t]
    BY <1>6 DEF HasProvider
  <2>4. ThreadsInv'
    BY <1>1, <1>2, <2>2, <2>3, ChangeTypes
  <2>5. QED
    BY <1>6, <2>4 DEF HasProvider, TypesInv, ThreadsInv
<1>7. CASE NoProvider(r)
  <2>1. ThreadsInv' /\ out' \in [Requests -> Seq(Told)]
    <3>1. CASE Finish(r) /\ Tell(r, "error")
      BY <1>1, <3>1, FinishTypes, TellTypes DEF TypesInv, Told
    <3>2. CASE th' = [th EXCEPT ![r].prov = "xai", ![r].pc = "lookup"] /\ UNCHANGED out
      <4> DEFINE t == [th[r] EXCEPT !.prov = "xai", !.pc = "lookup"]
      <4>1. t \in Thread /\ t.calls = th[r].calls
        BY <1>2, <1>4 DEF Thread
      <4>2. th' = [th EXCEPT ![r] = t]
        BY <3>2
      <4>3. QED
        BY <1>1, <1>2, <3>2, <4>1, <4>2, ChangeTypes DEF TypesInv
    <3>3. CASE Goto(r, "end_sub") /\ UNCHANGED out
      BY <1>1, <1>4, <3>3, GotoTypes DEF TypesInv
    <3>4. CASE Finish(r) /\ UNCHANGED out
      BY <1>1, <3>4, FinishTypes DEF TypesInv
    <3>5. th[r].use \in Uses
      BY <1>2 DEF Thread
    <3>6. QED
      BY <1>7, <3>1, <3>2, <3>3, <3>4, <3>5 DEF NoProvider, Uses
  <2>2. QED
    BY <1>7, <2>1 DEF NoProvider, TypesInv, ThreadsInv
<1>8. CASE Send(r)
  <2>1. ThreadsInv'
    BY <1>1, <1>4, <1>8, GotoTypes DEF Send
  <2>2. QED
    BY <1>8, <2>1 DEF Send, TypesInv, ThreadsInv
<1>9. CASE TokenGood(r)
  <2>1. ThreadsInv'
    BY <1>1, <1>4, <1>9, GotoTypes DEF TokenGood
  <2>2. shared' \in BOOLEAN
    BY <1>9 DEF TokenGood
  <2>3. QED
    BY <1>9, <2>1, <2>2 DEF TokenGood, TypesInv, ThreadsInv
<1>10. CASE TokenFree(r)
  <2>1. ThreadsInv'
    BY <1>1, <1>4, <1>10, GotoTypes DEF TokenFree
  <2>2. shared' \in BOOLEAN /\ misused' \in BOOLEAN
    BY <1>10 DEF TokenFree
  <2>3. QED
    BY <1>10, <2>1, <2>2 DEF TokenFree, TypesInv, ThreadsInv
<1>11. CASE Exchange(r)
  <2>1. ThreadsInv'
    BY <1>1, <1>4, <1>11, GotoTypes DEF Exchange, NoReply
  <2>2. QED
    BY <1>11, <2>1 DEF Exchange, TypesInv, ThreadsInv
<1>12. CASE SetExpiry(r)
  <2>1. ThreadsInv'
    BY <1>1, <1>4, <1>12, GotoTypes DEF SetExpiry
  <2>2. QED
    BY <1>12, <2>1 DEF SetExpiry, TypesInv, ThreadsInv
<1>13. CASE Bearer(r)
  <2>1. ThreadsInv'
    BY <1>1, <1>4, <1>13, GotoTypes DEF Bearer
  <2>2. misused' \in BOOLEAN
    BY <1>13 DEF Bearer
  <2>3. QED
    BY <1>13, <2>1, <2>2 DEF Bearer, TypesInv, ThreadsInv
<1>14. CASE ReceiveMain(r)
  <2>1. PICK reply \in Replies(r) :
          th' = IF reply.calls = <<>>
                THEN [th EXCEPT ![r].pc = "final", ![r].content = reply.content]
                ELSE [th EXCEPT ![r].pc = "tools", ![r].calls = reply.calls,
                          ![r].hist = Append(@, Msg("calls", Len(reply.calls),
                                                    reply.content = "text"))]
    BY <1>14 DEF ReceiveMain
  <2>2. /\ reply.content \in Contents /\ reply.calls \in Seq(Call)
        /\ Len(reply.calls) \in 0..MaxCalls
    BY <1>3, ReplyTypes
  <2> DEFINE m == Msg("calls", Len(reply.calls), reply.content = "text")
             hist == Append(th[r].hist, m)
             t == IF reply.calls = <<>>
                  THEN [th[r] EXCEPT !.pc = "final", !.content = reply.content]
                  ELSE [th[r] EXCEPT !.pc = "tools", !.calls = reply.calls, !.hist = hist]
  <2>3. m \in Message
    BY <2>2, MessageTypes
  <2>4. hist \in Seq(Message)
    BY <1>3, <2>3, AppendProperties
  <2> HIDE DEF hist
  <2>5. t \in Thread
    BY <1>2, <1>4, <2>2, <2>4 DEF Thread
  <2>6. Len(t.calls) <= MaxCalls
    BY <1>2, <1>4, <2>2 DEF Thread
  <2>7. th' = [th EXCEPT ![r] = t]
    BY <2>1 DEF hist
  <2>8. ThreadsInv'
    BY <1>1, <2>5, <2>6, <2>7, ChangeTypes
  <2>9. QED
    BY <1>14, <2>8 DEF ReceiveMain, TypesInv, ThreadsInv
<1>15. CASE ReceiveSub(r)
  <2>1. ThreadsInv'
    BY <1>1, <1>4, <1>15, GotoTypes DEF ReceiveSub
  <2>2. QED
    BY <1>15, <2>1 DEF ReceiveSub, TypesInv, ThreadsInv
<1>16. CASE ReceiveName(r)
  <2>1. ThreadsInv'
    BY <1>1, <1>16, FinishTypes DEF ReceiveName
  <2>2. out' \in [Requests -> Seq(Told)]
    BY <1>16, TellTypes DEF ReceiveName, TypesInv, Told
  <2>3. QED
    BY <1>16, <2>1, <2>2 DEF ReceiveName, TypesInv, ThreadsInv
<1> DEFINE answered == Append(th[r].hist, Result(r))
           rest == Tail(th[r].calls)
<1>17. Len(th[r].calls) \in 0..MaxCalls
  BY <1>2, <1>3, LenProperties
<1>18. answered \in Seq(Message)
  <2>1. Result(r) \in Message
    BY <1>17, MessageTypes DEF Result
  <2>2. QED
    BY <1>3, <2>1, AppendProperties
<1>19. th[r].calls # <<>> => rest \in Seq(Call) /\ Len(rest) <= MaxCalls
  BY <1>3, <1>4, <1>17, HeadTailProperties
<1>20. CASE Placeholder(r)
  <2> DEFINE t == [th[r] EXCEPT !.calls = rest, !.hist = answered]
  <2> HIDE DEF answered, rest
  <2>1. t \in Thread /\ t.calls = rest
    BY <1>2, <1>18, <1>19, <1>20 DEF Thread, Placeholder
  <2>2. th' = [th EXCEPT ![r] = t]
    BY <1>20 DEF Placeholder, rest, answered
  <2>3. ThreadsInv'
    BY <1>1, <1>19, <1>20, <2>1, <2>2, ChangeTypes DEF Placeholder
  <2>4. QED
    BY <1>20, <2>3 DEF Placeholder, TypesInv, ThreadsInv
<1>21. CASE StartSub(r)
  <2> DEFINE t == [th[r] EXCEPT !.pc = "lookup", !.use = "sub", !.prov = Head(th[r].calls)]
  <2>1. t \in Thread /\ t.calls = th[r].calls
    BY <1>2, <1>4, <1>21 DEF StartSub, Thread, Uses
  <2>2. th' = [th EXCEPT ![r] = t]
    BY <1>21 DEF StartSub
  <2>3. ThreadsInv'
    BY <1>1, <1>2, <2>1, <2>2, ChangeTypes
  <2>4. out' \in [Requests -> Seq(Told)]
    BY <1>21, TellTypes DEF StartSub, TypesInv, Told
  <2>5. QED
    BY <1>21, <2>3, <2>4 DEF StartSub, TypesInv, ThreadsInv
<1>22. CASE EndSub(r)
  <2> DEFINE t == [th[r] EXCEPT !.pc = "tools", !.use = "main", !.prov = th[r].id,
                                !.calls = rest, !.hist = answered]
  <2>0. th[r].calls # <<>>
    BY <1>22 DEF EndSub, PhaseInv, PhaseOK
  <2> HIDE DEF answered, rest
  <2>1. t \in Thread /\ t.calls = rest
    BY <1>2, <1>3, <1>4, <1>18, <1>19, <2>0 DEF Thread, Uses
  <2>2. th' = [th EXCEPT ![r] = t]
    BY <1>22 DEF EndSub, rest, answered
  <2>3. ThreadsInv'
    BY <1>1, <1>19, <2>0, <2>1, <2>2, ChangeTypes
  <2>4. out' \in [Requests -> Seq(Told)]
    BY <1>22, TellTypes DEF EndSub, TypesInv, Told
  <2>5. QED
    BY <1>22, <2>3, <2>4 DEF EndSub, TypesInv, ThreadsInv
<1>23. CASE NextRound(r)
  <2> DEFINE t == IF th[r].iters < MaxToolIters
                  THEN [th[r] EXCEPT !.pc = "send", !.iters = th[r].iters + 1]
                  ELSE [th[r] EXCEPT !.pc = "final"]
  <2>1. th[r].iters < MaxToolIters => th[r].iters + 1 \in 0..MaxToolIters
    BY <1>3, <1>4
  <2>2. t \in Thread /\ t.calls = th[r].calls
    BY <1>2, <1>4, <2>1 DEF Thread
  <2>3. th' = [th EXCEPT ![r] = t]
    BY <1>23 DEF NextRound
  <2>4. ThreadsInv'
    BY <1>1, <1>2, <2>2, <2>3, ChangeTypes
  <2>5. QED
    BY <1>23, <2>4 DEF NextRound, TypesInv, ThreadsInv
<1>24. CASE SendFinal(r)
  <2>1. ThreadsInv'
    <3>1. CASE Finish(r)
      BY <1>1, <3>1, FinishTypes
    <3>2. CASE th' = [th EXCEPT ![r] = [Idle EXCEPT !.pc = "lookup", !.use = "name",
                                                    !.id = th[r].id]]
      <4> DEFINE t == [Idle EXCEPT !.pc = "lookup", !.use = "name", !.id = th[r].id]
      <4>1. t \in Thread
        BY <1>3, <1>4, IdleType DEF Thread, Uses
      <4>2. Len(t.calls) <= MaxCalls
        BY IdleType DEF Thread
      <4>3. QED
        BY <1>1, <3>2, <4>1, <4>2, ChangeTypes
    <3>3. QED
      BY <1>24, <3>1, <3>2 DEF SendFinal
  <2>2. out' \in [Requests -> Seq(Told)]
    BY <1>24, TellTypes DEF SendFinal, TypesInv, Told
  <2>3. QED
    BY <1>24, <2>1, <2>2 DEF SendFinal, TypesInv, ThreadsInv
<1>25. QED
  BY <1>5, <1>6, <1>7, <1>8, <1>9, <1>10, <1>11, <1>12, <1>13, <1>14, <1>15, <1>16,
     <1>20, <1>21, <1>22, <1>23, <1>24 DEF AgentStep

\* Nor does a request that arrives, or the hour that ends a token.
LEMMA TypesStep ==
    ASSUME TypesInv, PhaseInv, [AgentNext]_agentVars PROVE TypesInv'
<1>1. ASSUME NEW r \in Requests, NEW ask \in Asking[r], Accept(r, ask[1], ask[2])
      PROVE  TypesInv'
  <2> DEFINE t == [Idle EXCEPT !.pc = "lookup", !.id = ask[1], !.prov = ask[1],
                               !.first = ask[2], !.hist = Asked(ask[2])]
  <2>1. Asking[r] \subseteq Providers \X BOOLEAN
    BY AgentAssumption
  <2>2. ask[1] \in Providers /\ ask[2] \in BOOLEAN
    BY <2>1
  <2>3. t \in Thread
    <3>1. Asked(ask[2]) \in Seq(Message)
      BY <2>2, AskedType
    <3>2. QED
      BY <2>2, <3>1, IdleType DEF Pcs, Thread
  <2>4. Len(t.calls) <= MaxCalls
    BY IdleType DEF Thread
  <2>5. ThreadsInv
    BY DEF TypesInv, ThreadsInv
  <2>6. ThreadsInv'
    BY <1>1, <2>3, <2>4, <2>5, ChangeTypes DEF Accept
  <2>7. QED
    BY <1>1, <2>6 DEF Accept, TypesInv, ThreadsInv, tokenVars
<1>2. CASE Expire
  <2>1. expiries' \in 0..MaxExpiries
    BY <1>2, AgentAssumption DEF Expire, TypesInv
  <2>2. QED
    BY <1>2, <2>1 DEF Expire, TypesInv
<1>3. CASE UNCHANGED agentVars
  BY <1>3 DEF agentVars, tokenVars, TypesInv
<1>4. QED
  BY <1>1, <1>2, <1>3, StepTypes DEF AgentNext
-----------------------------------------------------------------------------
(* Places, uses and providers.                                             *)

\* A thread that ends is as good as idle.
LEMMA FinishEffect ==
    ASSUME th \in [Requests -> Thread], NEW r \in Requests, Finish(r)
    PROVE  /\ th'[r].pc = "done" /\ th'[r].use = "main" /\ th'[r].id = th[r].id
           /\ th'[r].hist = <<>> /\ th'[r].calls = <<>> /\ th'[r].iters = 0
  BY DEF Finish, Idle

\* A thread that has replied ends, or goes on to name the session.
LEMMA SendFinalEffect ==
    ASSUME th \in [Requests -> Thread], NEW r \in Requests, SendFinal(r)
    PROVE  /\ \/ th'[r].pc = "done" /\ th'[r].use = "main"
              \/ th'[r].pc = "lookup" /\ th'[r].use = "name"
           /\ th'[r].id = th[r].id
           /\ th'[r].hist = <<>> /\ th'[r].calls = <<>> /\ th'[r].iters = 0
<1>1. CASE th' = [th EXCEPT ![r] = [Idle EXCEPT !.pc = "lookup", !.use = "name", !.id = th[r].id]]
  BY <1>1 DEF Idle
<1>2. CASE Finish(r)
  BY <1>2, FinishEffect
<1>3. QED
  BY <1>1, <1>2 DEF SendFinal

\* A step of a thread leaves the other threads, what was told of their
\* requests, and the credentials alone.
LEMMA OneThread ==
    ASSUME TypesInv, NEW r \in Requests, AgentStep(r)
    PROVE  /\ \A q \in Requests \ {r} : th'[q] = th[q] /\ out'[q] = out[q]
           /\ config' = config
<1> USE DEF TypesInv, Goto, Finish, Tell, tokenVars
<1>1. CASE InitProvider(r) \/ HasProvider(r) \/ Send(r)
  BY <1>1 DEF InitProvider, HasProvider, Send
<1>2. CASE NoProvider(r)
  <2>1. th[r].use \in {"main", "sub", "name"}
    BY DEF Thread, Uses
  <2>2. CASE th[r].use = "main"
    BY <1>2, <2>2 DEF NoProvider
  <2>3. CASE th[r].use = "sub" /\ th[r].prov # "xai"
    BY <1>2, <2>3 DEF NoProvider
  <2>4. CASE th[r].use = "sub" /\ th[r].prov = "xai"
    BY <1>2, <2>4 DEF NoProvider
  <2>5. CASE th[r].use = "name"
    BY <1>2, <2>5 DEF NoProvider
  <2>6. QED
    BY <2>1, <2>2, <2>3, <2>4, <2>5
<1>3. CASE TokenGood(r) \/ TokenFree(r) \/ Exchange(r) \/ SetExpiry(r) \/ Bearer(r)
  BY <1>3 DEF TokenGood, TokenFree, Exchange, SetExpiry, Bearer
<1>4. CASE ReceiveMain(r)
  BY <1>4 DEF ReceiveMain
<1>5. CASE ReceiveSub(r) \/ ReceiveName(r)
  BY <1>5 DEF ReceiveSub, ReceiveName
<1>6. CASE Placeholder(r) \/ StartSub(r) \/ EndSub(r)
  BY <1>6 DEF Placeholder, StartSub, EndSub
<1>7. CASE NextRound(r)
  BY <1>7 DEF NextRound
<1>8. CASE SendFinal(r)
  BY <1>8 DEF SendFinal
<1>9. QED
  BY <1>1, <1>2, <1>3, <1>4, <1>5, <1>6, <1>7, <1>8 DEF AgentStep

\* Every step leaves a thread with a provider that fits its use.
LEMMA PhaseStep ==
    ASSUME TypesInv, PhaseInv, [AgentNext]_agentVars PROVE PhaseInv'
<1> USE DEF Goto
<1>1. ASSUME NEW r \in Requests, AgentStep(r) PROVE PhaseOK(th'[r])
  <2>1. th \in [Requests -> Thread] /\ th[r] \in Thread /\ PhaseOK(th[r])
    BY DEF TypesInv, PhaseInv
  <2>2. th[r].pc \in Pcs /\ th[r].use \in Uses
    BY <2>1 DEF Thread
  <2> DEFINE t == [Idle EXCEPT !.pc = "done", !.id = th[r].id]
  <2>3. PhaseOK(t)
    BY DEF Idle, PhaseOK
  <2>4. Finish(r) => th'[r] = t
    BY <2>1 DEF Finish
  <2> HIDE DEF t
  <2>5. CASE InitProvider(r)
    BY <1>1, <2>1, <2>2, <2>5 DEF InitProvider, Thread, Uses, PhaseOK
  <2>6. CASE HasProvider(r)
    BY <2>1, <2>2, <2>6 DEF HasProvider, Thread, Uses, PhaseOK
  <2>7. CASE NoProvider(r)
    <3>1. CASE th[r].use = "main"
      BY <2>3, <2>4, <2>7, <3>1 DEF NoProvider
    <3>2. CASE th[r].use = "sub" /\ th[r].prov # "xai"
      <4>1. th' = [th EXCEPT ![r].prov = "xai", ![r].pc = "lookup"]
        BY <2>7, <3>2 DEF NoProvider
      <4>2. QED
        BY <2>1, <3>2, <4>1 DEF Thread, PhaseOK
    <3>3. CASE th[r].use = "sub" /\ th[r].prov = "xai"
      <4>1. Goto(r, "end_sub")
        BY <2>7, <3>3 DEF NoProvider
      <4>2. QED
        BY <2>1, <3>3, <4>1 DEF Thread, PhaseOK
    <3>4. CASE th[r].use = "name"
      BY <2>3, <2>4, <2>7, <3>4 DEF NoProvider
    <3>5. QED
      BY <2>2, <3>1, <3>2, <3>3, <3>4 DEF Uses
  <2>8. CASE Send(r)
    BY <2>1, <2>2, <2>8 DEF Send, Thread, Uses, PhaseOK
  <2>9. CASE TokenGood(r)
    BY <2>1, <2>2, <2>9 DEF TokenGood, Thread, Uses, PhaseOK
  <2>10. CASE TokenFree(r)
    BY <2>1, <2>2, <2>10 DEF TokenFree, Thread, Uses, PhaseOK
  <2>11. CASE Exchange(r)
    <3>1. th[r].pc = "exchange" /\ th[r].prov = "ibm" /\ th[r].use \in {"main", "sub"}
      BY <2>1, <2>2, <2>11 DEF Exchange, Uses, PhaseOK
    <3>2. CASE Goto(r, "expiry")
      BY <2>1, <3>1, <3>2 DEF Thread, PhaseOK
    <3>3. CASE Goto(r, "final") /\ th[r].use = "main"
      BY <2>1, <3>1, <3>3 DEF Thread, PhaseOK
    <3>4. CASE Goto(r, "end_sub") /\ th[r].use = "sub"
      BY <2>1, <3>4 DEF Thread, PhaseOK
    <3>5. QED
      BY <2>11, <3>1, <3>2, <3>3, <3>4 DEF Exchange, NoReply
  <2>12. CASE SetExpiry(r)
    BY <2>1, <2>2, <2>12 DEF SetExpiry, Thread, Uses, PhaseOK
  <2>13. CASE Bearer(r)
    BY <2>1, <2>2, <2>13 DEF Bearer, Thread, Uses, PhaseOK
  <2>14. CASE ReceiveMain(r)
    BY <2>1, <2>2, <2>14 DEF ReceiveMain, Thread, Uses, PhaseOK
  <2>15. CASE ReceiveSub(r)
    BY <2>1, <2>2, <2>15 DEF ReceiveSub, Thread, Uses, PhaseOK
  <2>16. CASE ReceiveName(r)
    BY <2>3, <2>4, <2>16 DEF ReceiveName
  <2>17. CASE Placeholder(r)
    BY <2>1, <2>2, <2>17 DEF Placeholder, Thread, Uses, PhaseOK
  <2>18. CASE StartSub(r)
    BY <2>1, <2>2, <2>18 DEF StartSub, Thread, Uses, PhaseOK
  <2>19. CASE EndSub(r)
    BY <2>1, <2>2, <2>19 DEF EndSub, Thread, Uses, PhaseOK
  <2>20. CASE NextRound(r)
    BY <2>1, <2>2, <2>20 DEF NextRound, Thread, Uses, PhaseOK
  <2>21. CASE SendFinal(r)
    <3>1. CASE Finish(r)
      BY <2>3, <2>4, <3>1
    <3>2. CASE th' = [th EXCEPT ![r] = [Idle EXCEPT !.pc = "lookup", !.use = "name",
                                                    !.id = th[r].id]]
      BY <2>1, <3>2 DEF Idle, PhaseOK
    <3>3. QED
      BY <2>21, <3>1, <3>2 DEF SendFinal
  <2>22. QED
    BY <1>1, <2>5, <2>6, <2>7, <2>8, <2>9, <2>10, <2>11, <2>12, <2>13, <2>14, <2>15, <2>16,
       <2>17, <2>18, <2>19, <2>20, <2>21 DEF AgentStep
<1>2. ASSUME NEW r \in Requests, AgentStep(r) PROVE PhaseInv'
  BY <1>1, <1>2, OneThread DEF PhaseInv
<1>3. ASSUME NEW r \in Requests, NEW ask \in Asking[r], Accept(r, ask[1], ask[2])
      PROVE  PhaseInv'
  <2> DEFINE t == [Idle EXCEPT !.pc = "lookup", !.id = ask[1], !.prov = ask[1],
                               !.first = ask[2], !.hist = Asked(ask[2])]
  <2>1. PhaseOK(t)
    BY DEF Idle, PhaseOK
  <2>2. \A q \in Requests : th'[q] = IF q = r THEN t ELSE th[q]
    BY <1>3 DEF Accept, TypesInv
  <2>3. QED
    BY <2>1, <2>2 DEF PhaseInv
<1>4. CASE Expire
  BY <1>4 DEF Expire, PhaseInv
<1>5. CASE UNCHANGED agentVars
  BY <1>5 DEF agentVars, PhaseInv
<1>6. QED
  BY <1>2, <1>3, <1>4, <1>5 DEF AgentNext
-----------------------------------------------------------------------------
(* Credentials.                                                            *)

\* An entry of the provider table that is set stays as it is.
LEMMA TableStays ==
    ASSUME TypesInv, NEW r \in Requests, AgentStep(r)
    PROVE  \A p \in Providers : initialized[p] # 0 => initialized'[p] = initialized[p]
<1>1. CASE InitProvider(r)
  BY <1>1 DEF InitProvider, TypesInv
<1>2. CASE UNCHANGED initialized
  BY <1>2
<1>3. QED
  BY <1>1, <1>2 DEF AgentStep, HasProvider, NoProvider, Send, TokenGood, TokenFree, Exchange,
     SetExpiry, Bearer, ReceiveMain, ReceiveSub, ReceiveName, Placeholder, StartSub, EndSub,
     NextRound, SendFinal

\* The table is filled with what init returns.
LEMMA TableStep ==
    ASSUME TypesInv, TableInv, NEW r \in Requests, AgentStep(r) PROVE TableInv'
<1>1. config' = config
  BY OneThread
<1>2. CASE InitProvider(r)
  <2>1. th[r].prov \in Providers
    BY DEF TypesInv, Thread
  <2>2. \A p \in Providers : InitSucceeds(p)' = InitSucceeds(p)
    BY <1>1 DEF InitSucceeds, XaiKey, AnthropicKey, GoogleKey, IbmConfig
  <2>3. \A p \in Providers :
           initialized'[p] = IF p = th[r].prov /\ initialized[p] = 0
                             THEN IF InitSucceeds(p) THEN 1 ELSE -1 ELSE initialized[p]
    BY <1>2, <2>1 DEF InitProvider, TypesInv
  <2> HIDE DEF InitSucceeds
  <2>4. QED
    BY <2>2, <2>3 DEF TableInv
<1>3. CASE UNCHANGED initialized
  BY <1>1, <1>3 DEF TableInv, InitSucceeds, XaiKey, AnthropicKey, GoogleKey, IbmConfig
<1>4. QED
  BY <1>2, <1>3 DEF AgentStep, HasProvider, NoProvider, Send, TokenGood, TokenFree, Exchange,
     SetExpiry, Bearer, ReceiveMain, ReceiveSub, ReceiveName, Placeholder, StartSub, EndSub,
     NextRound, SendFinal

\* Telling something else than an error adds no error.
LEMMA TellErrors ==
    ASSUME out \in [Requests -> Seq(Told)], NEW r \in Requests, NEW kind \in Told \ {"error"},
           Tell(r, kind)
    PROVE  \A i \in 1..Len(out'[r]) :
              out'[r][i] = "error" => i \in 1..Len(out[r]) /\ out[r][i] = "error"
<1>1. out[r] \in Seq(Told) /\ kind \in Told
  OBVIOUS
<1>2. out'[r] = Append(out[r], kind)
  BY DEF Tell
<1>3. /\ Len(out'[r]) = Len(out[r]) + 1 /\ Len(out[r]) \in Nat
      /\ \A i \in 1..Len(out[r]) : out'[r][i] = out[r][i]
      /\ out'[r][Len(out[r]) + 1] = kind
  BY <1>1, <1>2, AppendProperties, LenProperties
<1>4. QED
  BY <1>3
\* A thread's step leaves it with a provider that works, wherever it needs one.
LEMMA ReliesStep ==
    ASSUME TypesInv, PhaseInv, CredsInv, NEW r \in Requests, AgentStep(r)
    PROVE  ReliesOK(r)'
<1>1. th \in [Requests -> Thread] /\ th[r] \in Thread /\ PhaseOK(th[r]) /\ ReliesOK(r)
  BY DEF TypesInv, PhaseInv, CredsInv
<1>2. /\ th[r].pc \in Pcs /\ th[r].use \in Uses
      /\ th[r].id \in Providers /\ th[r].prov \in Providers
  BY <1>1 DEF Thread
<1>3. out \in [Requests -> Seq(Told)] /\ initialized \in [Providers -> {-1, 0, 1}]
  BY DEF TypesInv
<1>4. \A p \in Providers : initialized[p] # 0 => initialized'[p] = initialized[p]
  BY TableStays
<1>5. th[r].use = "sub" => Head(th[r].calls) \in Providers
  BY <1>1 DEF PhaseOK
<1>6. ASSUME th'[r].id = th[r].id,
             \/ out'[r] = out[r]
             \/ \E kind \in Told \ {"error"} : Tell(r, kind)
             \/ initialized[th[r].id] = -1
      PROVE  \A i \in 1..Len(out'[r]) : out'[r][i] = "error" => initialized'[th'[r].id] = -1
  <2>1. \A i \in 1..Len(out[r]) : out[r][i] = "error" => initialized[th[r].id] = -1
    BY <1>1 DEF ReliesOK
  <2>2. initialized[th[r].id] = -1 => initialized'[th[r].id] = -1
    BY <1>2, <1>4
  <2>3. QED
    BY <1>3, <1>6, <2>1, <2>2, TellErrors
<1> USE DEF Goto
<1>7. ASSUME Finish(r)
      PROVE  th'[r].pc = "done" /\ th'[r].use = "main" /\ th'[r].id = th[r].id
  BY <1>1, <1>7, FinishEffect
<1>8. CASE InitProvider(r)
  <2>1. /\ th'[r] = [th[r] EXCEPT !.pc = "looked"]
        /\ th'[r].id = th[r].id /\ out' = out
    BY <1>1, <1>8 DEF InitProvider, Thread
  <2>2. initialized'[th[r].prov] # 0
    BY <1>2, <1>3, <1>8 DEF InitProvider
  <2>3. QED
    BY <1>1, <1>2, <1>4, <1>5, <1>6, <1>8, <2>1, <2>2 DEF InitProvider, ReliesOK, Asks, Thread
<1>9. CASE HasProvider(r)
  <2>1. /\ th'[r].pc = "send" /\ th'[r].use = th[r].use /\ th'[r].id = th[r].id
        /\ th'[r].prov = th[r].prov /\ th'[r].calls = th[r].calls
        /\ out' = out /\ initialized' = initialized
    BY <1>1, <1>9 DEF HasProvider, Thread
  <2>2. QED
    BY <1>1, <1>6, <1>9, <2>1 DEF HasProvider, ReliesOK, Asks
<1>10. CASE NoProvider(r)
  <2>1. initialized[th[r].prov] = -1 /\ initialized' = initialized
    BY <1>1, <1>2, <1>3, <1>10 DEF NoProvider, ReliesOK
  <2>2. CASE th[r].use = "main"
    <3>1. Finish(r) /\ th[r].prov = th[r].id
      BY <1>1, <1>10, <2>2 DEF NoProvider, PhaseOK
    <3>2. QED
      BY <1>6, <1>7, <2>1, <3>1 DEF ReliesOK, Asks
  <2>3. CASE th[r].use = "sub" /\ th[r].prov # "xai"
    <3>1. th' = [th EXCEPT ![r].prov = "xai", ![r].pc = "lookup"] /\ out' = out
      BY <1>10, <2>3 DEF NoProvider
    <3>2. /\ th'[r].pc = "lookup" /\ th'[r].use = "sub" /\ th'[r].id = th[r].id
          /\ th'[r].prov = "xai" /\ th'[r].calls = th[r].calls
      BY <1>1, <2>3, <3>1 DEF Thread
    <3>3. QED
      BY <1>1, <1>6, <2>1, <2>3, <3>1, <3>2 DEF ReliesOK, Asks
  <2>4. CASE th[r].use = "sub" /\ th[r].prov = "xai"
    <3>1. Goto(r, "end_sub") /\ out' = out
      BY <1>10, <2>4 DEF NoProvider
    <3>2. /\ th'[r].pc = "end_sub" /\ th'[r].use = "sub" /\ th'[r].id = th[r].id
          /\ th'[r].prov = "xai" /\ th'[r].calls = th[r].calls
      BY <1>1, <2>4, <3>1 DEF Thread
    <3>3. QED
      BY <1>1, <1>6, <2>1, <2>4, <3>1, <3>2 DEF ReliesOK, Asks
  <2>5. CASE th[r].use = "name"
    <3>1. Finish(r) /\ out' = out
      BY <1>10, <2>5 DEF NoProvider
    <3>2. QED
      BY <1>6, <1>7, <3>1 DEF ReliesOK, Asks
  <2>6. QED
    BY <1>2, <2>2, <2>3, <2>4, <2>5 DEF Uses
<1>11. ASSUME NEW pc \in {"exchange", "expiry", "bearer", "wait"}, Goto(r, pc),
              th[r].pc \in Asks, UNCHANGED <<out, initialized>>
       PROVE  ReliesOK(r)'
  <2>1. /\ th'[r].pc = pc /\ th'[r].use = th[r].use /\ th'[r].id = th[r].id
        /\ th'[r].prov = th[r].prov /\ th'[r].calls = th[r].calls
    BY <1>1, <1>11 DEF Thread
  <2>2. QED
    BY <1>1, <1>6, <1>11, <2>1 DEF ReliesOK, Asks
<1>12. ASSUME NEW pc \in {"final", "end_sub"}, Goto(r, pc), UNCHANGED <<out, initialized>>
       PROVE  ReliesOK(r)'
  <2>1. /\ th'[r].pc = pc /\ th'[r].use = th[r].use /\ th'[r].id = th[r].id
        /\ th'[r].prov = th[r].prov /\ th'[r].calls = th[r].calls
    BY <1>1, <1>12 DEF Thread
  <2>2. th'[r].use = "sub" => initialized'[th'[r].id] = 1
    BY <1>1, <1>12, <2>1 DEF ReliesOK
  <2>3. QED
    BY <1>1, <1>6, <1>12, <2>1, <2>2 DEF ReliesOK, Asks
<1>13. CASE Send(r) \/ TokenGood(r) \/ TokenFree(r) \/ SetExpiry(r) \/ Bearer(r)
  BY <1>11, <1>13 DEF Send, TokenGood, TokenFree, SetExpiry, Bearer, Asks
<1>14. CASE Exchange(r)
  BY <1>11, <1>12, <1>14 DEF Exchange, NoReply, Asks
<1>15. CASE ReceiveMain(r)
  <2>1. /\ th'[r].pc \in {"final", "tools"} /\ th'[r].use = "main" /\ th'[r].id = th[r].id
        /\ out' = out /\ initialized' = initialized
    BY <1>1, <1>15 DEF ReceiveMain, Thread
  <2>2. initialized[th[r].id] = 1
    BY <1>1, <1>15 DEF ReceiveMain, ReliesOK, PhaseOK, Asks
  <2>3. QED
    BY <1>6, <2>1, <2>2 DEF ReliesOK, Asks
<1>16. CASE ReceiveSub(r)
  BY <1>12, <1>16 DEF ReceiveSub
<1>17. CASE ReceiveName(r)
  <2>1. out'[r] = out[r] \/ Tell(r, "rename")
    BY <1>17 DEF ReceiveName
  <2>2. QED
    BY <1>6, <1>7, <1>17, <2>1 DEF ReceiveName, ReliesOK, Asks, Told
<1>18. CASE Placeholder(r)
  <2>1. /\ th'[r].pc = "tools" /\ th'[r].use = "main" /\ th'[r].id = th[r].id
        /\ out' = out /\ initialized' = initialized /\ initialized[th[r].id] = 1
    BY <1>1, <1>18 DEF Placeholder, Thread, ReliesOK, PhaseOK
  <2>2. QED
    BY <1>6, <2>1 DEF ReliesOK, Asks
<1>19. CASE StartSub(r)
  <2>1. /\ th'[r].pc = "lookup" /\ th'[r].use = "sub" /\ th'[r].id = th[r].id
        /\ th'[r].prov = Head(th[r].calls) /\ th'[r].calls = th[r].calls
        /\ initialized' = initialized /\ initialized[th[r].id] = 1
    BY <1>1, <1>19 DEF StartSub, Thread, ReliesOK
  <2>2. QED
    BY <1>6, <1>19, <2>1 DEF StartSub, ReliesOK, Asks, Told
<1>20. CASE EndSub(r)
  <2>1. /\ th'[r].pc = "tools" /\ th'[r].use = "main" /\ th'[r].id = th[r].id
        /\ initialized' = initialized /\ initialized[th[r].id] = 1
    BY <1>1, <1>20 DEF EndSub, Thread, ReliesOK, PhaseOK
  <2>2. QED
    BY <1>6, <1>20, <2>1 DEF EndSub, ReliesOK, Asks, Told
<1>21. CASE NextRound(r)
  <2>1. /\ th'[r].pc \in {"send", "final"} /\ th'[r].use = "main" /\ th'[r].id = th[r].id
        /\ th'[r].prov = th[r].id
        /\ out' = out /\ initialized' = initialized /\ initialized[th[r].id] = 1
    BY <1>1, <1>21 DEF NextRound, Thread, ReliesOK, PhaseOK
  <2>2. QED
    BY <1>6, <2>1 DEF ReliesOK, Asks
<1>22. CASE SendFinal(r)
  <2>1. /\ th'[r].pc \in {"lookup", "done"} /\ th'[r].use \in {"main", "name"}
        /\ th'[r].id = th[r].id /\ initialized' = initialized
    BY <1>1, <1>22, SendFinalEffect DEF SendFinal
  <2>2. QED
    BY <1>6, <1>22, <2>1 DEF SendFinal, ReliesOK, Asks, Told
<1>23. QED
  BY <1>8, <1>9, <1>10, <1>13, <1>14, <1>15, <1>16, <1>17, <1>18, <1>19, <1>20, <1>21, <1>22
     DEF AgentStep
\* The provider table and the threads fit each other after every step.
LEMMA CredsStep ==
    ASSUME TypesInv, PhaseInv, CredsInv, [AgentNext]_agentVars PROVE CredsInv'
<1>1. ASSUME NEW r \in Requests, AgentStep(r) PROVE CredsInv'
  <2>1. TableInv'
    BY <1>1, TableStep DEF CredsInv
  <2>2. ReliesOK(r)'
    BY <1>1, ReliesStep
  <2>3. ASSUME NEW q \in Requests \ {r} PROVE ReliesOK(q)'
    <3>1. th'[q] = th[q] /\ out'[q] = out[q]
      BY <1>1, OneThread
    <3>2. \A p \in Providers : initialized[p] # 0 => initialized'[p] = initialized[p]
      BY <1>1, TableStays
    <3>3. /\ ReliesOK(q) /\ th[q].prov \in Providers /\ th[q].id \in Providers
          /\ th[q].use = "sub" => Head(th[q].calls) \in Providers
      BY DEF TypesInv, Thread, PhaseInv, PhaseOK, CredsInv
    <3>4. QED
      BY <3>1, <3>2, <3>3 DEF ReliesOK
  <2>4. QED
    BY <2>1, <2>2, <2>3 DEF CredsInv
<1>2. ASSUME NEW r \in Requests, NEW ask \in Asking[r], Accept(r, ask[1], ask[2])
      PROVE  CredsInv'
  <2>1. UNCHANGED <<config, initialized, out>> /\ out[r] = <<>>
    BY <1>2 DEF Accept, CredsInv, ReliesOK
  <2>2. /\ th'[r].pc = "lookup" /\ th'[r].use = "main"
        /\ \A q \in Requests \ {r} : th'[q] = th[q]
    BY <1>2 DEF Accept, Idle, TypesInv
  <2>3. ReliesOK(r)'
    BY <2>1, <2>2 DEF ReliesOK, Asks
  <2>4. ASSUME NEW q \in Requests \ {r} PROVE ReliesOK(q)'
    BY <2>1, <2>2 DEF CredsInv, ReliesOK
  <2>5. TableInv'
    BY <2>1 DEF CredsInv, TableInv, InitSucceeds, XaiKey, AnthropicKey, GoogleKey, IbmConfig
  <2>6. QED
    BY <2>3, <2>4, <2>5 DEF CredsInv
<1>3. CASE UNCHANGED <<config, initialized, th, out>>
  BY <1>3 DEF CredsInv, ReliesOK, TableInv, InitSucceeds, XaiKey, AnthropicKey, GoogleKey, IbmConfig
<1>4. QED
  BY <1>1, <1>2, <1>3 DEF AgentNext, Expire, agentVars

-----------------------------------------------------------------------------
(* IBM's token.                                                            *)

\* A step that has nothing to do with the token neither begins nor ends work
\* on it.
LEMMA TokenAside ==
    ASSUME TypesInv, TokenInv, UNCHANGED <<token, shared, misused>>,
           \A r \in Requests : th'[r].pc # th[r].pc => ~Busy(r) /\ ~Busy(r)'
    PROVE  TokenInv'
<1>1. \A r \in Requests : Busy(r)' <=> Busy(r)
  BY DEF Busy
<1>2. \A r \in Requests : Busy(r) => th'[r].pc = th[r].pc
  OBVIOUS
<1>3. \A r \in Requests : th[r].pc = "exchange" => Busy(r)
  BY DEF Busy
<1>4. \A r \in Requests : th'[r].pc \in {"expiry", "bearer"} => Busy(r)'
  BY DEF Busy
<1>5. QED
  BY <1>1, <1>2, <1>3, <1>4 DEF TokenInv

\* No step misuses the token before two threads have met at it.
LEMMA TokenStep ==
    ASSUME TypesInv, TokenInv, [AgentNext]_agentVars PROVE TokenInv'
<1> USE DEF Goto
<1>0. th \in [Requests -> Thread]
  BY DEF TypesInv
<1>1. ASSUME NEW r \in Requests, TokenGood(r) PROVE TokenInv'
  <2>1. th' = [th EXCEPT ![r].pc = "bearer"] /\ th[r].pc = "send" /\ token' = token
    BY <1>1 DEF TokenGood
  <2>2. \A q \in Requests \ {r} : th'[q].pc = th[q].pc
    BY <1>0, <2>1
  <2>3. shared' = (shared \/ ~Alone(r)) /\ misused' = misused /\ token # "none"
    BY <1>1 DEF TokenGood
  <2>4. CASE shared \/ ~Alone(r)
    BY <2>3, <2>4 DEF TokenInv
  <2>5. CASE ~shared /\ Alone(r)
    <3>1. \A q \in Requests : ~Busy(q)
      BY <2>1, <2>5 DEF Alone, Busy
    <3>2. token = "live"
      BY <2>3, <2>5, <3>1 DEF TokenInv, TypesInv, Busy
    <3>3. QED
      BY <1>0, <2>1, <2>2, <2>3, <2>5, <3>1, <3>2 DEF TokenInv, Busy
  <2>6. QED
    BY <2>4, <2>5
<1>2. ASSUME NEW r \in Requests, TokenFree(r) PROVE TokenInv'
  <2>1. th' = [th EXCEPT ![r].pc = "exchange"] /\ th[r].pc = "send"
    BY <1>2 DEF TokenFree
  <2>2. th'[r].pc = "exchange" /\ \A q \in Requests \ {r} : th'[q].pc = th[q].pc
    BY <1>0, <2>1
  <2>3. shared' = (shared \/ ~Alone(r)) /\ misused' = (misused \/ token = "freed")
    BY <1>2 DEF TokenFree
  <2>4. CASE shared \/ ~Alone(r)
    BY <2>3, <2>4 DEF TokenInv
  <2>5. CASE ~shared /\ Alone(r)
    <3>1. \A q \in Requests : ~Busy(q)
      BY <2>1, <2>5 DEF Alone, Busy
    <3>2. token # "freed" /\ ~misused
      BY <2>5, <3>1 DEF TokenInv, Busy
    <3>3. \A q \in Requests : Busy(q)' => q = r
      BY <2>2, <3>1 DEF Busy
    <3>4. QED
      BY <2>2, <2>3, <3>2, <3>3 DEF TokenInv, Busy
  <2>6. QED
    BY <2>4, <2>5
<1>3. ASSUME NEW r \in Requests, Exchange(r) PROVE TokenInv'
  <2>1. th[r].pc = "exchange" /\ UNCHANGED <<shared, misused>>
    BY <1>3 DEF Exchange
  <2>2. \A q \in Requests \ {r} : th'[q].pc = th[q].pc
    BY <1>0, <1>3 DEF Exchange
  <2>3. ~shared => \A q \in Requests \ {r} : ~Busy(q)
    BY <2>1 DEF TokenInv, Busy
  <2>4. token' \in {"live", "none"} /\ (th'[r].pc \in {"expiry", "bearer"} => token' = "live")
    <3>1. CASE token' = "live" /\ Goto(r, "expiry")
      BY <3>1
    <3>2. CASE token' = "none" /\ Goto(r, NoReply(r))
      BY <1>0, <3>2 DEF NoReply, Thread
    <3>3. QED
      BY <1>3, <3>1, <3>2 DEF Exchange
  <2>5. QED
    BY <2>1, <2>2, <2>3, <2>4 DEF TokenInv, Busy
<1>4. ASSUME NEW r \in Requests, SetExpiry(r) PROVE TokenInv'
  <2>1. th[r].pc = "expiry" /\ UNCHANGED <<token, shared, misused>>
    BY <1>4 DEF SetExpiry
  <2>2. th'[r].pc = "bearer" /\ \A q \in Requests \ {r} : th'[q].pc = th[q].pc
    BY <1>0, <1>4 DEF SetExpiry
  <2>3. QED
    BY <2>1, <2>2 DEF TokenInv, Busy
<1>5. ASSUME NEW r \in Requests, Bearer(r) PROVE TokenInv'
  <2>1. th[r].pc = "bearer" /\ UNCHANGED <<token, shared>> /\ misused' = (misused \/ token # "live")
    BY <1>5 DEF Bearer
  <2>2. th'[r].pc = "wait" /\ \A q \in Requests \ {r} : th'[q].pc = th[q].pc
    BY <1>0, <1>5 DEF Bearer
  <2>3. QED
    BY <2>1, <2>2 DEF TokenInv, Busy
<1>6. ASSUME NEW r \in Requests, AgentStep(r),
             ~(TokenGood(r) \/ TokenFree(r) \/ Exchange(r) \/ SetExpiry(r) \/ Bearer(r))
      PROVE  TokenInv'
  <2>1. UNCHANGED <<token, shared, misused>>
    BY <1>6 DEF AgentStep, InitProvider, HasProvider, NoProvider, Send, ReceiveMain, ReceiveSub,
       ReceiveName, Placeholder, StartSub, EndSub, NextRound, SendFinal, tokenVars
  <2>2. th[r].pc \in Pcs \ {"exchange", "expiry", "bearer"}
    BY <1>6 DEF AgentStep, InitProvider, HasProvider, NoProvider, Send, ReceiveMain, ReceiveSub,
       ReceiveName, Placeholder, StartSub, EndSub, NextRound, SendFinal, Pcs
  <2>3. th'[r].pc \notin {"exchange", "expiry", "bearer"}
    <3>0. th[r] \in Thread
      BY <1>0
    <3>1. CASE InitProvider(r) \/ HasProvider(r) \/ Send(r) \/ ReceiveSub(r)
      BY <1>0, <3>0, <3>1 DEF InitProvider, HasProvider, Send, ReceiveSub, Thread
    <3>6. CASE ReceiveMain(r)
      BY <1>0, <3>0, <3>6 DEF ReceiveMain, Thread
    <3>2. CASE NoProvider(r)
      <4>1. th[r].use \in Uses
        BY <1>0 DEF Thread
      <4>2. \/ Finish(r)
            \/ th' = [th EXCEPT ![r].prov = "xai", ![r].pc = "lookup"]
            \/ Goto(r, "end_sub")
        BY <3>2, <4>1 DEF NoProvider, Uses
      <4>3. QED
        BY <1>0, <3>0, <4>2, FinishEffect DEF Thread
    <3>3. CASE Placeholder(r) \/ StartSub(r) \/ EndSub(r) \/ NextRound(r)
      BY <1>0, <2>2, <3>3 DEF Placeholder, StartSub, EndSub, NextRound, Thread
    <3>4. CASE ReceiveName(r) \/ SendFinal(r)
      BY <1>0, <3>4, FinishEffect, SendFinalEffect DEF ReceiveName
    <3>5. QED
      BY <1>6, <3>1, <3>2, <3>3, <3>4, <3>6 DEF AgentStep
  <2>4. \A q \in Requests \ {r} : th'[q] = th[q]
    BY <1>6, OneThread
  <2>5. QED
    BY <2>1, <2>2, <2>3, <2>4, TokenAside DEF Busy
<1>7. ASSUME NEW r \in Requests, NEW ask \in Asking[r], Accept(r, ask[1], ask[2])
      PROVE  TokenInv'
  <2>1. UNCHANGED <<token, shared, misused>> /\ th[r].pc = "idle"
    BY <1>7 DEF Accept, tokenVars
  <2>2. th'[r].pc = "lookup" /\ \A q \in Requests \ {r} : th'[q] = th[q]
    BY <1>0, <1>7 DEF Accept, Idle
  <2>3. QED
    BY <2>1, <2>2, TokenAside DEF Busy
<1>8. CASE UNCHANGED <<th, token, shared, misused>>
  BY <1>8 DEF TokenInv, Busy
<1>9. QED
  BY <1>1, <1>2, <1>3, <1>4, <1>5, <1>6, <1>7, <1>8 DEF AgentNext, Expire, agentVars, tokenVars
-----------------------------------------------------------------------------
(* What the TUI is told.                                                   *)

\* Whether kind may follow what was told so far.
MayFollow(o, kind) ==
    /\ kind \in {"start", "final"} => o = <<>> \/ Ends(o, "end")
    /\ kind = "end" => Ends(o, "start")
    /\ kind = "error" => o = <<>>
    /\ kind = "rename" => Ends(o, "final")

\* What may follow keeps the order.
LEMMA OrderlyAppend ==
    ASSUME NEW o \in Seq(Told), Orderly(o), NEW kind \in Told, MayFollow(o, kind)
    PROVE  Orderly(Append(o, kind)) /\ Ends(Append(o, kind), kind)
<1> DEFINE n == Append(o, kind)
<1>1. /\ n \in Seq(Told) /\ n # <<>> /\ Len(o) \in Nat /\ Len(n) = Len(o) + 1
      /\ \A i \in 1..Len(o) : n[i] = o[i]
      /\ n[Len(o) + 1] = kind
      /\ o # <<>> => Len(o) >= 1
  BY AppendProperties, LenProperties, EmptySeq
<1> HIDE DEF n
<1>2. ASSUME NEW i \in 1..Len(o), o[i] \in {"final", "error"}
      PROVE  kind = "rename" /\ i = Len(o) /\ o[i] = "final"
  <2>1. i = Len(o) \/ (i + 1 = Len(o) /\ o[Len(o)] = "rename")
    BY <1>2 DEF Orderly
  <2>2. o # <<>> /\ o[Len(o)] \in {"final", "error", "rename"}
    BY <1>1, <1>2, <2>1
  <2>3. kind = "rename" /\ o[Len(o)] = "final"
    BY <2>2 DEF MayFollow, Ends, Told
  <2>4. QED
    BY <1>2, <2>1, <2>3
<1>3. ASSUME NEW i \in 1..Len(o)
      PROVE  /\ n[i] \in {"final", "error"} =>
                  /\ i > 1 => n[i - 1] = "end"
                  /\ i = Len(n) \/ (i + 1 = Len(n) /\ n[Len(n)] = "rename")
             /\ n[i] = "error" => Len(n) = 1
             /\ n[i] = "end" => i > 1 /\ n[i - 1] = "start"
             /\ n[i] = "start" => i = 1 \/ n[i - 1] = "end"
             /\ n[i] = "rename" => i > 1 /\ n[i - 1] = "final"
  <2>1. n[i] = o[i] /\ (i > 1 => n[i - 1] = o[i - 1])
    BY <1>1
  <2>2. n[i] \in {"final", "error"} =>
          i + 1 = Len(n) /\ n[Len(n)] = "rename" /\ n[i] = "final"
    BY <1>1, <1>2, <2>1
  <2>3. QED
    BY <2>1, <2>2 DEF Orderly
<1>4. /\ n[Len(n)] = kind /\ Len(n) = Len(o) + 1
      /\ o # <<>> => Len(n) > 1 /\ n[Len(n) - 1] = o[Len(o)]
      /\ o = <<>> => Len(n) = 1
  BY <1>1
<1>5. /\ kind \in {"final", "error"} => (Len(n) > 1 => n[Len(n) - 1] = "end")
      /\ kind = "error" => Len(n) = 1
      /\ kind = "end" => Len(n) > 1 /\ n[Len(n) - 1] = "start"
      /\ kind = "start" => Len(n) = 1 \/ n[Len(n) - 1] = "end"
      /\ kind = "rename" => Len(n) > 1 /\ n[Len(n) - 1] = "final"
  BY <1>4 DEF MayFollow, Ends
<1>6. \A i \in 1..Len(n) : i \in 1..Len(o) \/ i = Len(n)
  BY <1>1
<1>7. Orderly(n)
  BY <1>3, <1>4, <1>5, <1>6 DEF Orderly
<1>8. QED
  BY <1>1, <1>4, <1>7 DEF Ends, n
\* Telling what may follow: the TUI's messages stay in order.
LEMMA TellOrder ==
    ASSUME TypesInv, NEW r \in Requests, Orderly(out[r]),
           NEW kind \in Told, MayFollow(out[r], kind), Tell(r, kind)
    PROVE  Orderly(out'[r]) /\ Ends(out'[r], kind)
<1>1. out[r] \in Seq(Told) /\ out'[r] = Append(out[r], kind)
  BY DEF Tell, TypesInv
<1>2. QED
  BY <1>1, OrderlyAppend

\* A thread's step tells the TUI what may follow.
LEMMA ToldThread ==
    ASSUME TypesInv, PhaseInv, ToldInv, NEW r \in Requests, AgentStep(r)
    PROVE  ToldOK(r)'
<1>1. th \in [Requests -> Thread] /\ th[r] \in Thread /\ PhaseOK(th[r]) /\ ToldOK(r)
  BY DEF TypesInv, PhaseInv, ToldInv
<1>2. th[r].pc \in Pcs /\ th[r].use \in Uses /\ Orderly(out[r])
  BY <1>1 DEF Thread, ToldOK
<1>3. \A kind \in {"start", "end", "final", "error", "rename"} : kind \in Told
  BY DEF Told
<1> USE DEF Goto
\* A step that says nothing and leaves the use as it is.
<1>4. ASSUME UNCHANGED out, th'[r].use = th[r].use,
             \/ th[r].pc = "lookup" /\ th'[r].pc = "looked"
             \/ /\ th[r].pc \in {"looked", "tools"} \cup Asks
                /\ th'[r].pc \in {"tools", "final"} \cup Asks
             \/ th[r].use = "sub" /\ th'[r].pc \in {"lookup", "end_sub"}
      PROVE  ToldOK(r)'
  BY <1>1, <1>4 DEF ToldOK, Asks
<1>5. CASE InitProvider(r)
  <2>1. UNCHANGED out /\ th'[r].use = th[r].use /\ th'[r].pc = "looked" /\ th[r].pc = "lookup"
    BY <1>1, <1>5 DEF InitProvider, Thread
  <2>2. QED
    BY <1>4, <2>1
<1>6. CASE HasProvider(r)
  <2>1. UNCHANGED out /\ th'[r].use = th[r].use /\ th'[r].pc = "send" /\ th[r].pc = "looked"
    BY <1>1, <1>6 DEF HasProvider, Thread
  <2>2. QED
    BY <1>4, <2>1 DEF Asks
<1>7. CASE NoProvider(r)
  <2>1. CASE th[r].use = "main"
    <3>1. Finish(r) /\ Tell(r, "error") /\ th[r].pc = "looked"
      BY <1>7, <2>1 DEF NoProvider
    <3>2. MayFollow(out[r], "error")
      BY <1>1, <2>1, <3>1 DEF ToldOK, MayFollow
    <3>3. QED
      BY <1>1, <1>2, <1>3, <3>1, <3>2, TellOrder, FinishEffect DEF ToldOK, Asks
  <2>2. CASE th[r].use = "sub" /\ th[r].prov # "xai"
    <3>1. th' = [th EXCEPT ![r].prov = "xai", ![r].pc = "lookup"] /\ UNCHANGED out
      BY <1>7, <2>2 DEF NoProvider
    <3>2. th'[r].pc = "lookup" /\ th'[r].use = th[r].use
      BY <1>1, <3>1 DEF Thread
    <3>3. QED
      BY <1>4, <2>2, <3>1, <3>2
  <2>3. CASE th[r].use = "sub" /\ th[r].prov = "xai"
    <3>1. Goto(r, "end_sub") /\ UNCHANGED out
      BY <1>7, <2>3 DEF NoProvider
    <3>2. th'[r].pc = "end_sub" /\ th'[r].use = th[r].use
      BY <1>1, <3>1 DEF Thread
    <3>3. QED
      BY <1>4, <2>3, <3>1, <3>2
  <2>4. CASE th[r].use = "name"
    <3>1. Finish(r) /\ UNCHANGED out
      BY <1>7, <2>4 DEF NoProvider
    <3>2. QED
      BY <1>1, <1>2, <3>1, FinishEffect DEF ToldOK, Asks
  <2>5. QED
    BY <1>2, <2>1, <2>2, <2>3, <2>4 DEF Uses
<1>8. ASSUME NEW pc \in Asks \cup {"final"}, th[r].pc \in Asks, Goto(r, pc), UNCHANGED out
      PROVE  ToldOK(r)'
  <2>1. th'[r].pc = pc /\ th'[r].use = th[r].use
    BY <1>1, <1>8 DEF Thread
  <2>2. QED
    BY <1>4, <1>8, <2>1
<1>9. ASSUME th[r].use = "sub", Goto(r, "end_sub"), UNCHANGED out
      PROVE  ToldOK(r)'
  <2>1. th'[r].pc = "end_sub" /\ th'[r].use = th[r].use
    BY <1>1, <1>9 DEF Thread
  <2>2. QED
    BY <1>4, <1>9, <2>1
<1>10. CASE Send(r) \/ TokenGood(r) \/ TokenFree(r) \/ SetExpiry(r) \/ Bearer(r)
  BY <1>8, <1>10 DEF Send, TokenGood, TokenFree, SetExpiry, Bearer, Asks
<1>11. CASE Exchange(r)
  <2>1. th[r].pc = "exchange" /\ UNCHANGED out /\ th[r].use \in {"main", "sub"}
    BY <1>1, <1>2, <1>11 DEF Exchange, PhaseOK, Uses
  <2>2. CASE Goto(r, "expiry")
    BY <1>8, <2>1, <2>2 DEF Asks
  <2>3. CASE Goto(r, NoReply(r))
    BY <1>8, <1>9, <2>1, <2>3 DEF Asks, NoReply
  <2>4. QED
    BY <1>11, <2>2, <2>3 DEF Exchange
<1>12. CASE ReceiveMain(r)
  <2>1. UNCHANGED out /\ th'[r].use = th[r].use /\ th'[r].pc \in {"tools", "final"}
    BY <1>1, <1>12 DEF ReceiveMain, Thread
  <2>2. QED
    BY <1>4, <1>12, <2>1 DEF ReceiveMain, Asks
<1>13. CASE ReceiveSub(r)
  BY <1>9, <1>13 DEF ReceiveSub
<1>14. CASE ReceiveName(r)
  <2>1. MayFollow(out[r], "rename")
    BY <1>1, <1>14 DEF ReceiveName, ToldOK, MayFollow
  <2>2. Orderly(out'[r])
    BY <1>2, <1>3, <1>14, <2>1, TellOrder DEF ReceiveName
  <2>3. QED
    BY <1>1, <1>14, <2>2, FinishEffect DEF ReceiveName, ToldOK, Asks
<1>15. CASE Placeholder(r)
  <2>1. UNCHANGED out /\ th'[r].use = th[r].use /\ th'[r].pc = "tools" /\ th[r].pc = "tools"
    BY <1>1, <1>15 DEF Placeholder, Thread
  <2>2. QED
    BY <1>4, <2>1
<1>16. CASE StartSub(r)
  <2>1. MayFollow(out[r], "start") /\ Tell(r, "start")
    BY <1>1, <1>16 DEF StartSub, ToldOK, PhaseOK, MayFollow
  <2>2. Orderly(out'[r]) /\ Ends(out'[r], "start")
    BY <1>2, <1>3, <2>1, TellOrder
  <2>3. th'[r].use = "sub" /\ th'[r].pc = "lookup"
    BY <1>1, <1>16 DEF StartSub, Thread
  <2>4. QED
    BY <2>2, <2>3 DEF ToldOK
<1>17. CASE EndSub(r)
  <2>1. MayFollow(out[r], "end") /\ Tell(r, "end")
    BY <1>1, <1>17 DEF EndSub, ToldOK, PhaseOK, MayFollow
  <2>2. Orderly(out'[r]) /\ Ends(out'[r], "end")
    BY <1>2, <1>3, <2>1, TellOrder
  <2>3. th'[r].use = "main" /\ th'[r].pc = "tools"
    BY <1>1, <1>17 DEF EndSub, Thread
  <2>4. QED
    BY <2>2, <2>3 DEF ToldOK
<1>18. CASE NextRound(r)
  <2>1. /\ UNCHANGED out /\ th'[r].use = th[r].use
        /\ th'[r].pc \in {"send", "final"} /\ th[r].pc = "tools"
    BY <1>1, <1>18 DEF NextRound, Thread
  <2>2. QED
    BY <1>4, <2>1 DEF Asks
<1>19. CASE SendFinal(r)
  <2>1. MayFollow(out[r], "final") /\ Tell(r, "final")
    BY <1>1, <1>19 DEF SendFinal, ToldOK, PhaseOK, MayFollow
  <2>2. Orderly(out'[r]) /\ Ends(out'[r], "final")
    BY <1>2, <1>3, <2>1, TellOrder
  <2>3. QED
    BY <1>1, <1>19, <2>2, SendFinalEffect DEF ToldOK, Asks
<1>20. QED
  BY <1>5, <1>6, <1>7, <1>10, <1>11, <1>12, <1>13, <1>14, <1>15, <1>16, <1>17, <1>18, <1>19
     DEF AgentStep

\* The order holds over every step.
LEMMA ToldStep ==
    ASSUME TypesInv, PhaseInv, ToldInv, [AgentNext]_agentVars PROVE ToldInv'
<1>1. ASSUME NEW r \in Requests, AgentStep(r) PROVE ToldInv'
  <2>1. ASSUME NEW q \in Requests \ {r} PROVE ToldOK(q)'
    BY <1>1, OneThread DEF ToldInv, ToldOK
  <2>2. QED
    BY <1>1, <2>1, ToldThread DEF ToldInv
<1>2. ASSUME NEW r \in Requests, NEW ask \in Asking[r], Accept(r, ask[1], ask[2])
      PROVE  ToldInv'
  <2>1. UNCHANGED out /\ out[r] = <<>>
    BY <1>2 DEF Accept, ToldInv, ToldOK
  <2>2. /\ th'[r].pc = "lookup" /\ th'[r].use = "main"
        /\ \A q \in Requests \ {r} : th'[q] = th[q]
    BY <1>2 DEF Accept, Idle, TypesInv
  <2>3. QED
    BY <2>1, <2>2 DEF ToldInv, ToldOK, Asks
<1>3. CASE UNCHANGED <<th, out>>
  BY <1>3 DEF ToldInv, ToldOK
<1>4. QED
  BY <1>1, <1>2, <1>3 DEF AgentNext, Expire, agentVars
-----------------------------------------------------------------------------
(* Rounds of tool calls.                                                   *)

CallsIn(hist) == {i \in DOMAIN hist : hist[i].kind = "calls"}

\* A chat has finitely many messages with calls.
LEMMA CallsFinite ==
    ASSUME NEW hist \in Seq(Message)
    PROVE  IsFiniteSet(CallsIn(hist)) /\ Cardinality(CallsIn(hist)) \in Nat
<1>1. CallsIn(hist) \subseteq 1..Len(hist) /\ Len(hist) \in Nat
  BY LenProperties DEF CallsIn
<1>2. IsFiniteSet(1..Len(hist))
  BY <1>1, FS_Interval
<1>3. IsFiniteSet(CallsIn(hist))
  BY <1>1, <1>2, FS_Subset
<1>4. QED
  BY <1>3, FS_CardinalityType

\* A reply with calls adds one to them, another message none.
LEMMA CallsAppend ==
    ASSUME NEW hist \in Seq(Message), NEW m \in Message
    PROVE  Cardinality(CallsIn(Append(hist, m))) =
              Cardinality(CallsIn(hist)) + (IF m.kind = "calls" THEN 1 ELSE 0)
<1> DEFINE n == Append(hist, m)
<1>1. /\ n \in Seq(Message) /\ Len(n) = Len(hist) + 1 /\ Len(hist) \in Nat
      /\ \A i \in 1..Len(hist) : n[i] = hist[i]
      /\ n[Len(hist) + 1] = m
      /\ DOMAIN n = 1..Len(n) /\ DOMAIN hist = 1..Len(hist)
  BY AppendProperties, LenProperties
<1> HIDE DEF n
<1>2. CallsIn(n) = CallsIn(hist) \cup (IF m.kind = "calls" THEN {Len(hist) + 1} ELSE {})
  BY <1>1 DEF CallsIn
<1>3. Len(hist) + 1 \notin CallsIn(hist)
  BY <1>1 DEF CallsIn
<1>4. IsFiniteSet(CallsIn(hist)) /\ Cardinality(CallsIn(hist)) \in Nat
  BY CallsFinite
<1>5. CASE m.kind = "calls"
  <2>1. CallsIn(n) = CallsIn(hist) \cup {Len(hist) + 1}
    BY <1>2, <1>5
  <2>2. Cardinality(CallsIn(n)) = Cardinality(CallsIn(hist)) + 1
    BY <1>3, <1>4, <2>1, FS_AddElement
  <2>3. QED
    BY <1>5, <2>2 DEF n
<1>6. CASE m.kind # "calls"
  <2>1. CallsIn(n) = CallsIn(hist)
    BY <1>2, <1>6
  <2>2. QED
    BY <1>4, <1>6, <2>1 DEF n
<1>7. QED
  BY <1>5, <1>6

\* A chat without calls has none.
LEMMA NoCallsYet ==
    /\ Cardinality(CallsIn(<<>>)) = 0
    /\ \A first \in BOOLEAN : Cardinality(CallsIn(Asked(first))) = 0
<1>1. CallsIn(<<>>) = {}
  BY DEF CallsIn
<1>2. ASSUME NEW first \in BOOLEAN PROVE CallsIn(Asked(first)) = {}
  BY DEF CallsIn, Asked, User, Msg
<1>3. QED
  BY <1>1, <1>2, FS_EmptySet

\* Rounds counts them.
LEMMA RoundsAre == \A r : Rounds(r) = Cardinality(CallsIn(th[r].hist))
  BY DEF Rounds, CallsIn
\* A thread's step keeps iters in step with its chat.
LEMMA RoundsThread ==
    ASSUME TypesInv, PhaseInv, RoundsInv, NEW r \in Requests, AgentStep(r)
    PROVE  RoundsOK(r)'
<1>1. th \in [Requests -> Thread] /\ th[r] \in Thread /\ PhaseOK(th[r]) /\ RoundsOK(r)
  BY DEF TypesInv, PhaseInv, RoundsInv
<1>2. /\ th[r].pc \in Pcs /\ th[r].use \in Uses /\ th[r].hist \in Seq(Message)
      /\ th[r].iters \in Nat /\ MaxToolIters \in Nat \ {0}
  BY <1>1, AgentAssumption DEF Thread
<1>3. Rounds(r) \in Nat /\ Rounds(r) = Cardinality(CallsIn(th[r].hist))
  BY <1>2, RoundsAre, CallsFinite
<1>4. ASSUME th'[r].hist = th[r].hist PROVE Rounds(r)' = Rounds(r)
  BY <1>4 DEF Rounds
<1> USE DEF Goto
\* A step that keeps use, count and chat.
<1>5. ASSUME th'[r].use = th[r].use, th'[r].iters = th[r].iters, th'[r].hist = th[r].hist,
             \/ th[r].pc = "lookup" /\ th'[r].pc = "looked"
             \/ th[r].pc \in Asks /\ th'[r].pc \in Asks
             \/ th[r].use = "sub" /\ th'[r].pc \in Asks \cup {"lookup", "end_sub"}
             \/ th[r].use = "main" /\ th[r].pc \in Asks /\ th'[r].pc = "final"
             \/ th[r].use = "name" /\ th'[r].pc \in Asks
      PROVE  RoundsOK(r)'
  <2>1. Rounds(r)' = Rounds(r)
    BY <1>4, <1>5
  <2>2. QED
    BY <1>1, <1>5, <2>1 DEF RoundsOK, Asks
\* A thread that starts over has an empty chat.
<1>6. ASSUME th'[r].hist = <<>>, th'[r].use = "name" \/ th'[r].pc = "done",
             th'[r].pc \in {"lookup", "done"}, th'[r].use \in {"main", "name"}
      PROVE  RoundsOK(r)'
  <2>1. Rounds(r)' = 0
    BY <1>6, NoCallsYet DEF Rounds, CallsIn
  <2>2. QED
    BY <1>6, <2>1 DEF RoundsOK, Asks
<1>7. ASSUME Finish(r) PROVE RoundsOK(r)'
  BY <1>1, <1>6, <1>7, FinishEffect
<1>8. ASSUME NEW pc \in Pcs, Goto(r, pc)
      PROVE  /\ th'[r].pc = pc /\ th'[r].use = th[r].use /\ th'[r].iters = th[r].iters
             /\ th'[r].hist = th[r].hist
  BY <1>1, <1>8 DEF Thread
<1>9. Asks \cup {"lookup", "looked", "final", "end_sub"} \subseteq Pcs
  BY DEF Asks, Pcs
<1>10. CASE InitProvider(r)
  BY <1>5, <1>8, <1>9, <1>10 DEF InitProvider
<1>11. CASE HasProvider(r)
  <2>1. /\ th'[r].pc = "send" /\ th'[r].use = th[r].use /\ th'[r].hist = th[r].hist
        /\ th'[r].iters = IF th[r].use = "main" THEN 1 ELSE th[r].iters
    BY <1>1, <1>11 DEF HasProvider, Thread
  <2>2. CASE th[r].use = "main"
    <3>1. Rounds(r)' = 0
      BY <1>1, <1>4, <1>11, <2>1, <2>2 DEF HasProvider, RoundsOK
    <3>2. QED
      BY <2>1, <2>2, <3>1 DEF RoundsOK, Asks
  <2>3. CASE th[r].use \in {"sub", "name"}
    BY <1>5, <2>1, <2>3 DEF Asks
  <2>4. QED
    BY <1>2, <2>2, <2>3 DEF Uses
<1>12. CASE NoProvider(r)
  <2>1. CASE th[r].use = "main"
    BY <1>7, <1>12, <2>1 DEF NoProvider
  <2>2. CASE th[r].use = "sub" /\ th[r].prov # "xai"
    <3>1. th' = [th EXCEPT ![r].prov = "xai", ![r].pc = "lookup"]
      BY <1>12, <2>2 DEF NoProvider
    <3>2. /\ th'[r].pc = "lookup" /\ th'[r].use = th[r].use /\ th'[r].iters = th[r].iters
          /\ th'[r].hist = th[r].hist
      BY <1>1, <3>1 DEF Thread
    <3>3. QED
      BY <1>5, <2>2, <3>2
  <2>3. CASE th[r].use = "sub" /\ th[r].prov = "xai"
    <3>1. Goto(r, "end_sub")
      BY <1>12, <2>3 DEF NoProvider
    <3>2. QED
      BY <1>5, <1>8, <1>9, <2>3, <3>1
  <2>4. CASE th[r].use = "name"
    BY <1>7, <1>12, <2>4 DEF NoProvider
  <2>5. QED
    BY <1>2, <2>1, <2>2, <2>3, <2>4 DEF Uses
<1>13. ASSUME NEW pc \in Asks, th[r].pc \in Asks, Goto(r, pc) PROVE RoundsOK(r)'
  BY <1>5, <1>8, <1>9, <1>13
<1>14. CASE Send(r) \/ TokenGood(r) \/ TokenFree(r) \/ SetExpiry(r) \/ Bearer(r)
  BY <1>13, <1>14 DEF Send, TokenGood, TokenFree, SetExpiry, Bearer, Asks
<1>15. CASE Exchange(r)
  <2>1. th[r].pc = "exchange" /\ th[r].use \in {"main", "sub"}
    BY <1>1, <1>2, <1>15 DEF Exchange, PhaseOK, Uses
  <2>2. CASE Goto(r, "expiry")
    BY <1>13, <2>1, <2>2 DEF Asks
  <2>3. CASE Goto(r, NoReply(r))
    BY <1>5, <1>8, <1>9, <2>1, <2>3 DEF Asks, NoReply
  <2>4. QED
    BY <1>15, <2>2, <2>3 DEF Exchange
<1>16. CASE ReceiveMain(r)
  <2>1. PICK reply \in Replies(r) :
          th' = IF reply.calls = <<>>
                THEN [th EXCEPT ![r].pc = "final", ![r].content = reply.content]
                ELSE [th EXCEPT ![r].pc = "tools", ![r].calls = reply.calls,
                          ![r].hist = Append(@, Msg("calls", Len(reply.calls),
                                                    reply.content = "text"))]
    BY <1>16 DEF ReceiveMain
  <2>2. th[r].pc = "wait" /\ th[r].use = "main" /\ th[r].iters = Rounds(r) + 1
    BY <1>1, <1>16 DEF ReceiveMain, RoundsOK, Asks
  <2>3. CASE reply.calls = <<>>
    <3>1. /\ th'[r].pc = "final" /\ th'[r].use = th[r].use /\ th'[r].iters = th[r].iters
          /\ th'[r].hist = th[r].hist
      BY <1>1, <2>1, <2>3 DEF Thread
    <3>2. QED
      BY <1>5, <2>2, <3>1 DEF Asks
  <2>4. CASE reply.calls # <<>>
    <3> DEFINE m == Msg("calls", Len(reply.calls), reply.content = "text")
    <3>1. m \in Message /\ m.kind = "calls"
      <4>1. th[r].prov \in Providers
        BY <1>1 DEF Thread
      <4>2. Len(reply.calls) \in 0..MaxCalls
        BY <4>1, ReplyTypes
      <4>3. QED
        BY <4>2, MessageTypes DEF Msg
    <3> HIDE DEF m
    <3>2. /\ th'[r].pc = "tools" /\ th'[r].use = "main" /\ th'[r].iters = th[r].iters
          /\ th'[r].hist = Append(th[r].hist, m)
      BY <1>1, <2>1, <2>2, <2>4 DEF Thread, m
    <3>3. Rounds(r)' = Rounds(r) + 1
      <4>1. Rounds(r)' = Cardinality(CallsIn(th'[r].hist))
        BY DEF Rounds, CallsIn
      <4>2. QED
        BY <1>2, <1>3, <3>1, <3>2, <4>1, CallsAppend
    <3>4. QED
      BY <2>2, <3>2, <3>3 DEF RoundsOK, Asks
  <2>5. QED
    BY <2>3, <2>4
<1>17. CASE ReceiveSub(r)
  BY <1>5, <1>8, <1>9, <1>17 DEF ReceiveSub
<1>18. CASE ReceiveName(r)
  BY <1>7, <1>18 DEF ReceiveName
\* A result is no round.
<1>19. ASSUME th'[r].hist = Append(th[r].hist, Result(r)) PROVE Rounds(r)' = Rounds(r)
  <2>1. Len(th[r].calls) \in 0..MaxCalls
    <3>1. th[r].calls \in Seq(Call) /\ Len(th[r].calls) <= MaxCalls
      BY <1>1 DEF TypesInv, Thread
    <3>2. QED
      BY <3>1, LenProperties, AgentAssumption
  <2>2. Result(r) \in Message
    BY <2>1, MessageTypes DEF Result
  <2>3. Result(r).kind = "result"
    BY DEF Result, Msg
  <2>4. Rounds(r)' = Cardinality(CallsIn(th'[r].hist))
    BY DEF Rounds, CallsIn
  <2>5. QED
    BY <1>2, <1>3, <1>19, <2>2, <2>3, <2>4, CallsAppend
<1>20. CASE Placeholder(r)
  <2>1. /\ th'[r].pc = "tools" /\ th'[r].use = "main" /\ th[r].pc = "tools"
        /\ th'[r].iters = th[r].iters /\ th'[r].hist = Append(th[r].hist, Result(r))
    BY <1>1, <1>20 DEF Placeholder, Thread, PhaseOK
  <2>2. QED
    BY <1>1, <1>19, <2>1 DEF RoundsOK, Asks
<1>21. CASE StartSub(r)
  <2>1. /\ th'[r].pc = "lookup" /\ th'[r].use = "sub" /\ th[r].pc = "tools"
        /\ th'[r].iters = th[r].iters /\ th'[r].hist = th[r].hist
    BY <1>1, <1>21 DEF StartSub, Thread
  <2>2. QED
    BY <1>1, <1>4, <2>1 DEF RoundsOK, Asks
<1>22. CASE EndSub(r)
  <2>1. /\ th'[r].pc = "tools" /\ th'[r].use = "main" /\ th[r].use = "sub"
        /\ th'[r].iters = th[r].iters /\ th'[r].hist = Append(th[r].hist, Result(r))
    BY <1>1, <1>22 DEF EndSub, Thread, PhaseOK
  <2>2. QED
    BY <1>1, <1>19, <2>1 DEF RoundsOK, Asks
<1>23. CASE NextRound(r)
  <2>1. /\ th[r].pc = "tools" /\ th'[r].use = "main" /\ th'[r].hist = th[r].hist
        /\ \/ th'[r].pc = "send" /\ th'[r].iters = th[r].iters + 1
           \/ /\ th'[r].pc = "final" /\ th'[r].iters = th[r].iters
              /\ ~(th[r].iters < MaxToolIters)
    BY <1>1, <1>23 DEF NextRound, Thread, PhaseOK
  <2>2. th[r].iters = Rounds(r) /\ th[r].iters <= MaxToolIters /\ Rounds(r)' = Rounds(r)
    BY <1>1, <1>2, <1>4, <2>1 DEF RoundsOK, Thread
  <2>3. QED
    BY <1>2, <2>1, <2>2 DEF RoundsOK, Asks
<1>24. CASE SendFinal(r)
  BY <1>1, <1>6, <1>24, SendFinalEffect
<1>25. QED
  BY <1>10, <1>11, <1>12, <1>14, <1>15, <1>16, <1>17, <1>18, <1>20, <1>21, <1>22, <1>23, <1>24
     DEF AgentStep

\* Every count stays right.
LEMMA RoundsStep ==
    ASSUME TypesInv, PhaseInv, RoundsInv, [AgentNext]_agentVars PROVE RoundsInv'
<1>1. ASSUME NEW r \in Requests, AgentStep(r) PROVE RoundsInv'
  <2>1. ASSUME NEW q \in Requests \ {r} PROVE RoundsOK(q)'
    BY <1>1, OneThread DEF RoundsInv, RoundsOK, Rounds
  <2>2. QED
    BY <1>1, <2>1, RoundsThread DEF RoundsInv
<1>2. ASSUME NEW r \in Requests, NEW ask \in Asking[r], Accept(r, ask[1], ask[2])
      PROVE  RoundsInv'
  <2>1. ask[2] \in BOOLEAN
    BY AgentAssumption
  <2>2. /\ th'[r].pc = "lookup" /\ th'[r].use = "main" /\ th'[r].hist = Asked(ask[2])
        /\ \A q \in Requests \ {r} : th'[q] = th[q]
    BY <1>2 DEF Accept, Idle, TypesInv
  <2>3. Rounds(r)' = 0
    BY <2>1, <2>2, NoCallsYet DEF Rounds, CallsIn
  <2>4. RoundsOK(r)'
    BY <2>2, <2>3 DEF RoundsOK, Asks
  <2>5. ASSUME NEW q \in Requests \ {r} PROVE RoundsOK(q)'
    BY <2>2 DEF RoundsInv, RoundsOK, Rounds
  <2>6. QED
    BY <2>4, <2>5 DEF RoundsInv
<1>3. CASE UNCHANGED th
  BY <1>3 DEF RoundsInv, RoundsOK, Rounds
<1>4. QED
  BY <1>1, <1>2, <1>3 DEF AgentNext, Expire, agentVars
-----------------------------------------------------------------------------
(* The calls in a chat, and their results.                                 *)

\* A message more.
LEMMA HistAppend ==
    ASSUME NEW hist \in Seq(Message), NEW m \in Message, NEW h, h = Append(hist, m)
    PROVE  /\ h \in Seq(Message) /\ Len(h) = Len(hist) + 1 /\ Len(hist) \in Nat
           /\ \A i \in 1..Len(hist) : h[i] = hist[i] /\ hist[i] \in Message /\ hist[i].n \in Nat
           /\ h[Len(hist) + 1] = m /\ m.n \in Nat
<1>1. \A x \in Message : x.n \in Nat
  BY AgentAssumption DEF Message
<1>2. \A i \in 1..Len(hist) : hist[i] \in Message
  BY ElementOfSeq
<1> QED
  BY <1>1, <1>2, AppendProperties, LenProperties

\* The result that is due first.
LEMMA PendingResult ==
    ASSUME NEW hist \in Seq(Message), NEW m \in Message, NEW c \in Nat \ {0}, Pending(hist, c),
           m.kind = "result", m.n = c
    PROVE  Pending(Append(hist, m), c - 1)
<1> DEFINE L == Len(hist)
<1>1. PICK h : h = Append(hist, m)
  OBVIOUS
<1>2. /\ Len(h) = L + 1 /\ L \in Nat
      /\ \A i \in 1..L : h[i] = hist[i] /\ hist[i].n \in Nat
      /\ h[L + 1] = m
  BY ONLY <1>1, HistAppend, hist \in Seq(Message), m \in Message
<1> HIDE DEF L
<1>3. ASSUME NEW i \in 1..Len(h), h[i].kind = "calls"
      PROVE  /\ i + h[i].n <= Len(h) \/ i + h[i].n = Len(h) + (c - 1)
             /\ \A k \in 1..h[i].n : i + k <= Len(h) =>
                   h[i + k].kind = "result" /\ h[i + k].n = h[i].n + 1 - k
  <2>1. i \in 1..L /\ h[i] = hist[i] /\ hist[i].n \in Nat
    <3>1. i # L + 1
      BY <1>2, <1>3
    <3> QED
      BY <1>2, <3>1
  <2>2. /\ i + hist[i].n <= L \/ i + hist[i].n = L + c
        /\ \A k \in 1..hist[i].n : i + k <= L =>
              hist[i + k].kind = "result" /\ hist[i + k].n = hist[i].n + 1 - k
    BY <1>3, <2>1 DEF Pending, L
  <2>3. ASSUME NEW k \in 1..hist[i].n, i + k <= L + 1
        PROVE  h[i + k].kind = "result" /\ h[i + k].n = hist[i].n + 1 - k
    <3>1. CASE i + k <= L
      <4>1. i + k \in 1..L
        BY <1>2, <2>1, <3>1
      <4>2. h[i + k] = hist[i + k]
        BY <1>2, <4>1
      <4> QED
        BY <2>2, <3>1, <4>2
    <3>2. CASE i + k = L + 1
      <4>1. i + hist[i].n = L + c
        BY <1>2, <2>1, <2>2, <3>2
      <4>2. c = hist[i].n + 1 - k
        <5>1. {i, k, L, c, hist[i].n} \subseteq Int
          BY <1>2, <2>1
        <5> QED
          BY ONLY <3>2, <4>1, <5>1
      <4> QED
        BY <1>2, <3>2, <4>2
    <3> QED
      BY <1>2, <2>1, <2>3, <3>1, <3>2
  <2> QED
    BY <1>2, <2>1, <2>2, <2>3
<1>4. Pending(h, c - 1)
  BY <1>3 DEF Pending
<1> QED
  BY <1>1, <1>4

\* New calls.
LEMMA PendingCalls ==
    ASSUME NEW hist \in Seq(Message), NEW m \in Message, Pending(hist, 0)
    PROVE  Pending(Append(hist, m), m.n)
<1> DEFINE L == Len(hist)
<1>1. PICK h : h = Append(hist, m)
  OBVIOUS
<1>2. /\ Len(h) = L + 1 /\ L \in Nat
      /\ \A i \in 1..L : h[i] = hist[i] /\ hist[i].n \in Nat
      /\ h[L + 1] = m /\ m.n \in Nat
  BY ONLY <1>1, HistAppend, hist \in Seq(Message), m \in Message
<1> HIDE DEF L
<1>3. ASSUME NEW i \in 1..Len(h), h[i].kind = "calls"
      PROVE  /\ i + h[i].n <= Len(h) \/ i + h[i].n = Len(h) + m.n
             /\ \A k \in 1..h[i].n : i + k <= Len(h) =>
                   h[i + k].kind = "result" /\ h[i + k].n = h[i].n + 1 - k
  <2>1. CASE i = L + 1
    BY <1>2, <2>1
  <2>2. CASE i \in 1..L
    <3>1. h[i] = hist[i] /\ hist[i].n \in Nat
      BY <1>2, <2>2
    <3>2. /\ i + hist[i].n <= L \/ i + hist[i].n = L + 0
          /\ \A k \in 1..hist[i].n : i + k <= L =>
                hist[i + k].kind = "result" /\ hist[i + k].n = hist[i].n + 1 - k
      BY <1>3, <2>2, <3>1 DEF Pending, L
    <3>3. ASSUME NEW k \in 1..hist[i].n
          PROVE  h[i + k].kind = "result" /\ h[i + k].n = hist[i].n + 1 - k
      <4>1. i + k <= L /\ i + k \in 1..L
        BY <1>2, <2>2, <3>1, <3>2
      <4>2. h[i + k] = hist[i + k]
        BY <1>2, <4>1
      <4> QED
        BY <3>2, <4>1, <4>2
    <3> QED
      BY <1>2, <2>2, <3>1, <3>2, <3>3
  <2> QED
    BY <1>2, <2>1, <2>2
<1>4. Pending(h, m.n)
  BY <1>3 DEF Pending
<1> QED
  BY <1>1, <1>4

\* A chat without calls has none to carry out.
LEMMA PendingNone ==
    ASSUME NEW hist, \A i \in 1..Len(hist) : hist[i].kind # "calls", NEW c
    PROVE  Pending(hist, c)
BY DEF Pending

\* A thread's step keeps the chat in order.
LEMMA HistThread ==
    ASSUME TypesInv, PhaseInv, HistInv, NEW r \in Requests, AgentStep(r)
    PROVE  HistOK(th'[r])
<1>1. th \in [Requests -> Thread] /\ th[r] \in Thread /\ PhaseOK(th[r]) /\ HistOK(th[r])
  BY DEF TypesInv, PhaseInv, HistInv
<1>2. /\ th[r].pc \in Pcs /\ th[r].use \in Uses /\ th[r].hist \in Seq(Message)
      /\ th[r].prov \in Providers /\ th[r].calls \in Seq(Call)
  BY <1>1 DEF Thread
<1>3. /\ "looked" \in Pcs \ {"tools"} /\ "final" \in Pcs \ {"tools"}
      /\ "end_sub" \in Pcs \ {"tools"} /\ Asks \subseteq Pcs \ {"tools"}
  BY DEF Asks, Pcs
<1> USE DEF Goto
\* A step that keeps the chat and what is left to do.
<1>4. ASSUME NEW t, t.hist = th[r].hist, t.id = th[r].id, ToDo(t) = ToDo(th[r]),
             t.use = "name" \/ (th[r].use # "name" /\ th[r].pc \notin {"idle", "done"}),
             th[r].id # "xai" => t.pc # "tools" /\ t.use # "sub"
      PROVE  HistOK(t)
  BY <1>1, <1>4 DEF HistOK
<1>5. ASSUME NEW t, t.hist = th[r].hist, t.id = th[r].id, t.calls = th[r].calls, t.use = th[r].use,
             th[r].pc \notin {"idle", "done", "tools"}, t.pc # "tools"
      PROVE  HistOK(t)
  <2>1. ToDo(t) = ToDo(th[r])
    BY <1>5 DEF ToDo
  <2>2. th[r].id # "xai" => t.use # "sub"
    BY <1>1, <1>5 DEF HistOK
  <2> QED
    BY <1>4, <1>5, <2>1, <2>2
<1>6. ASSUME NEW pc \in Pcs \ {"tools"}, Goto(r, pc), th[r].pc \notin {"idle", "done", "tools"}
      PROVE  HistOK(th'[r])
  <2>1. /\ th'[r].pc = pc /\ th'[r].use = th[r].use /\ th'[r].id = th[r].id
        /\ th'[r].hist = th[r].hist /\ th'[r].calls = th[r].calls
    BY <1>1, <1>6 DEF Thread
  <2> QED
    BY <1>5, <1>6, <2>1
\* A thread that starts over has an empty chat.
<1>7. ASSUME NEW t, t.hist = <<>>, t.calls = <<>>, t.use = "name" \/ t.pc = "done",
             t.pc \in {"lookup", "done"}, t.use \in {"main", "name"}
      PROVE  HistOK(t)
  <2>1. \A i \in 1..Len(t.hist) : FALSE
    BY <1>7
  <2>2. Pending(t.hist, ToDo(t))
    BY <2>1, PendingNone
  <2> QED
    BY <1>7, <2>1, <2>2 DEF HistOK
<1>8. ASSUME Finish(r) PROVE HistOK(th'[r])
  BY <1>1, <1>7, <1>8, FinishEffect
<1>9. CASE InitProvider(r)
  BY <1>3, <1>6, <1>9 DEF InitProvider
<1>10. CASE HasProvider(r)
  <2>1. /\ th'[r].pc = "send" /\ th'[r].use = th[r].use /\ th'[r].id = th[r].id
        /\ th'[r].hist = th[r].hist /\ th'[r].calls = th[r].calls /\ th[r].pc = "looked"
    BY <1>1, <1>10 DEF HasProvider, Thread
  <2> QED
    BY <1>5, <2>1
<1>11. CASE NoProvider(r)
  <2>1. CASE th[r].use \in {"main", "name"}
    BY <1>8, <1>11, <2>1 DEF NoProvider
  <2>2. CASE th[r].use = "sub" /\ th[r].prov # "xai"
    <3>1. th' = [th EXCEPT ![r].prov = "xai", ![r].pc = "lookup"] /\ th[r].pc = "looked"
      BY <1>11, <2>2 DEF NoProvider
    <3>2. /\ th'[r].pc = "lookup" /\ th'[r].use = th[r].use /\ th'[r].id = th[r].id
          /\ th'[r].hist = th[r].hist /\ th'[r].calls = th[r].calls
      BY <1>1, <3>1 DEF Thread
    <3> QED
      BY <1>5, <3>1, <3>2
  <2>3. CASE th[r].use = "sub" /\ th[r].prov = "xai"
    <3>1. Goto(r, "end_sub") /\ th[r].pc = "looked"
      BY <1>11, <2>3 DEF NoProvider
    <3> QED
      BY <1>3, <1>6, <3>1
  <2> QED
    BY <1>2, <2>1, <2>2, <2>3 DEF Uses
<1>12. CASE Send(r) \/ TokenGood(r) \/ TokenFree(r) \/ SetExpiry(r) \/ Bearer(r)
  BY <1>3, <1>6, <1>12 DEF Send, TokenGood, TokenFree, SetExpiry, Bearer, Asks
<1>13. CASE Exchange(r)
  BY <1>3, <1>6, <1>13 DEF Exchange, NoReply, Asks
<1>14. CASE ReceiveMain(r)
  <2>1. PICK reply \in Replies(r) :
          th' = IF reply.calls = <<>>
                THEN [th EXCEPT ![r].pc = "final", ![r].content = reply.content]
                ELSE [th EXCEPT ![r].pc = "tools", ![r].calls = reply.calls,
                          ![r].hist = Append(@, Msg("calls", Len(reply.calls),
                                                    reply.content = "text"))]
    BY <1>14 DEF ReceiveMain
  <2>2. th[r].pc = "wait" /\ th[r].use = "main" /\ th[r].prov = th[r].id
    BY <1>1, <1>14 DEF ReceiveMain, PhaseOK
  <2>3. CASE reply.calls = <<>>
    <3>1. /\ th'[r].pc = "final" /\ th'[r].use = th[r].use /\ th'[r].id = th[r].id
          /\ th'[r].hist = th[r].hist /\ th'[r].calls = th[r].calls
      BY <1>1, <2>1, <2>3 DEF Thread
    <3> QED
      BY <1>5, <2>2, <3>1
  <2>4. CASE reply.calls # <<>>
    <3> DEFINE m == Msg("calls", Len(reply.calls), reply.content = "text")
    <3>1. Len(reply.calls) \in 0..MaxCalls
      BY <1>2, ReplyTypes
    <3>2. m \in Message /\ m.kind = "calls" /\ m.n = Len(reply.calls)
      BY <3>1, MessageTypes DEF Msg
    <3> HIDE DEF m
    <3>3. /\ th'[r].pc = "tools" /\ th'[r].use = "main" /\ th'[r].id = th[r].id
          /\ th'[r].calls = reply.calls /\ th'[r].hist = Append(th[r].hist, m)
      BY <1>1, <2>1, <2>2, <2>4 DEF Thread, m
    <3>4. th[r].id = "xai"
      <4>1. ASSUME th[r].prov \in {"anthropic", "google", "ibm"} PROVE reply.calls = <<>>
        <5>1. reply \in {Plain(c) : c \in Contents}
          BY <4>1 DEF Replies, AnthropicReplies, GoogleReplies, IbmReplies
        <5> QED
          BY <5>1 DEF Plain
      <4> QED
        BY <1>2, <2>2, <2>4, <4>1, AgentAssumption
    <3>5. Pending(th'[r].hist, ToDo(th'[r]))
      <4>1. Pending(th[r].hist, 0)
        BY <1>1, <2>2 DEF HistOK, ToDo
      <4>2. ToDo(th'[r]) = m.n
        BY <3>2, <3>3 DEF ToDo
      <4> QED
        BY <1>2, <3>2, <3>3, <4>1, <4>2, PendingCalls
    <3>6. th'[r].hist # <<>> /\ th'[r].hist[1].kind = "user"
      <4>1. th[r].hist # <<>> /\ th[r].hist[1].kind = "user"
        BY <1>1, <2>2 DEF HistOK
      <4>2. 1 \in 1..Len(th[r].hist)
        BY <1>2, <4>1, EmptySeq
      <4> QED
        BY <1>2, <3>2, <3>3, <4>1, <4>2, HistAppend, EmptySeq
    <3> QED
      BY <3>3, <3>4, <3>5, <3>6 DEF HistOK
  <2> QED
    BY <2>3, <2>4
<1>15. CASE ReceiveSub(r)
  BY <1>3, <1>6, <1>15 DEF ReceiveSub
<1>16. CASE ReceiveName(r)
  BY <1>8, <1>16 DEF ReceiveName
\* A call is done.
<1>17. ASSUME th'[r].pc = "tools", th'[r].use = "main", th'[r].id = th[r].id,
              th'[r].calls = Tail(th[r].calls), th'[r].hist = Append(th[r].hist, Result(r)),
              th[r].use = "sub" \/ th[r].pc = "tools", th[r].calls # <<>>
       PROVE  HistOK(th'[r])
  <2> DEFINE c == Len(th[r].calls)
  <2>1. c \in Nat \ {0} /\ c <= MaxCalls /\ Len(th'[r].calls) = c - 1
    BY <1>2, <1>17, HeadTailProperties, EmptySeq, LenProperties DEF TypesInv
  <2>2. Result(r) \in Message /\ Result(r).kind = "result" /\ Result(r).n = c
    <3>1. c \in 0..MaxCalls
      BY <2>1, AgentAssumption
    <3> QED
      BY <3>1, MessageTypes DEF Result, Msg
  <2> HIDE DEF c
  <2>3. ToDo(th[r]) = c /\ ToDo(th'[r]) = c - 1
    BY <1>17, <2>1 DEF ToDo, c
  <2>4. Pending(th[r].hist, c)
    BY <1>1, <2>3 DEF HistOK
  <2>5. Pending(th'[r].hist, c - 1)
    BY <1>2, <1>17, <2>1, <2>2, <2>4, PendingResult
  <2>6. th[r].id = "xai"
    BY <1>1, <1>17 DEF HistOK
  <2>7. th'[r].hist # <<>> /\ th'[r].hist[1].kind = "user"
    <3>1. th[r].hist # <<>> /\ th[r].hist[1].kind = "user"
      BY <1>1, <1>17 DEF HistOK, PhaseOK
    <3>2. 1 \in 1..Len(th[r].hist)
      BY <1>2, <3>1, EmptySeq
    <3> QED
      BY <1>2, <1>17, <2>2, <3>1, <3>2, HistAppend, EmptySeq
  <2> QED
    BY <1>17, <2>3, <2>5, <2>6, <2>7 DEF HistOK
<1>18. CASE Placeholder(r)
  <2>1. /\ th'[r].pc = "tools" /\ th'[r].use = "main" /\ th[r].pc = "tools"
        /\ th'[r].id = th[r].id /\ th'[r].calls = Tail(th[r].calls) /\ th[r].calls # <<>>
        /\ th'[r].hist = Append(th[r].hist, Result(r))
    BY <1>1, <1>18 DEF Placeholder, Thread, PhaseOK
  <2> QED
    BY <1>17, <2>1
<1>19. CASE StartSub(r)
  <2>1. /\ th'[r].use = "sub" /\ th'[r].id = th[r].id /\ th[r].pc = "tools"
        /\ th'[r].hist = th[r].hist /\ th'[r].calls = th[r].calls /\ th'[r].pc = "lookup"
    BY <1>1, <1>19 DEF StartSub, Thread
  <2>2. th[r].use = "main" /\ th[r].id = "xai" /\ ToDo(th'[r]) = ToDo(th[r])
    BY <1>1, <2>1 DEF PhaseOK, HistOK, ToDo
  <2> QED
    BY <1>4, <2>1, <2>2
<1>20. CASE EndSub(r)
  <2>1. /\ th'[r].pc = "tools" /\ th'[r].use = "main" /\ th[r].use = "sub"
        /\ th'[r].id = th[r].id /\ th'[r].calls = Tail(th[r].calls) /\ th[r].calls # <<>>
        /\ th'[r].hist = Append(th[r].hist, Result(r))
    BY <1>1, <1>20 DEF EndSub, Thread, PhaseOK
  <2> QED
    BY <1>17, <2>1
<1>21. CASE NextRound(r)
  <2>1. /\ th[r].pc = "tools" /\ th'[r].use = th[r].use /\ th'[r].hist = th[r].hist
        /\ th'[r].id = th[r].id /\ th'[r].calls = <<>> /\ th[r].calls = <<>>
        /\ th'[r].pc \in {"send", "final"}
    BY <1>1, <1>21 DEF NextRound, Thread
  <2>2. th[r].use = "main" /\ ToDo(th'[r]) = ToDo(th[r])
    BY <1>1, <2>1 DEF PhaseOK, ToDo
  <2> QED
    BY <1>4, <2>1, <2>2
<1>22. CASE SendFinal(r)
  BY <1>1, <1>7, <1>22, SendFinalEffect
<1> QED
  BY <1>9, <1>10, <1>11, <1>12, <1>13, <1>14, <1>15, <1>16, <1>18, <1>19, <1>20, <1>21, <1>22
     DEF AgentStep

\* The chat the TUI sends has no calls.
LEMMA AskedOK ==
    ASSUME NEW first \in BOOLEAN
    PROVE  /\ Asked(first) # <<>> /\ Asked(first)[1].kind = "user"
           /\ \A i \in 1..Len(Asked(first)) : Asked(first)[i].kind \in {"user", "assistant"}
BY DEF Asked, User, Msg

\* Every chat stays in order.
LEMMA HistStep ==
    ASSUME TypesInv, PhaseInv, HistInv, [AgentNext]_agentVars PROVE HistInv'
<1>1. ASSUME NEW r \in Requests, AgentStep(r) PROVE HistInv'
  <2>1. ASSUME NEW q \in Requests \ {r} PROVE HistOK(th'[q])
    BY <1>1, OneThread DEF HistInv
  <2>2. HistOK(th'[r])
    BY <1>1, HistThread
  <2> QED
    BY <2>1, <2>2 DEF HistInv
<1>2. ASSUME NEW r \in Requests, NEW ask \in Asking[r], Accept(r, ask[1], ask[2])
      PROVE  HistInv'
  <2>1. ask[2] \in BOOLEAN
    BY AgentAssumption
  <2>2. /\ th'[r].pc = "lookup" /\ th'[r].use = "main" /\ th'[r].hist = Asked(ask[2])
        /\ \A q \in Requests \ {r} : th'[q] = th[q]
    BY <1>2 DEF Accept, Idle, TypesInv
  <2>3. HistOK(th'[r])
    <3>1. PICK h : h = Asked(ask[2])
      OBVIOUS
    <3>2. /\ h # <<>> /\ h[1].kind = "user"
          /\ \A i \in 1..Len(h) : h[i].kind \in {"user", "assistant"}
      BY <2>1, <3>1, AskedOK
    <3>3. Pending(h, ToDo(th'[r]))
      BY <3>2, PendingNone
    <3> QED
      BY <2>2, <3>1, <3>2, <3>3 DEF HistOK
  <2> QED
    BY <1>2, <2>2, <2>3 DEF HistInv
<1>3. CASE UNCHANGED th
  BY <1>3 DEF HistInv
<1> QED
  BY <1>1, <1>2, <1>3 DEF AgentNext, Expire, agentVars

-----------------------------------------------------------------------------
(* Theorems.                                                               *)

\* Before any request came, everything holds.
LEMMA InvInit == ASSUME AgentInit PROVE IInv
<1>1. \A r \in Requests : th[r] = Idle /\ out[r] = <<>>
  BY DEF AgentInit
<1>2. TypesInv
  <2>1. th \in [Requests -> Thread] /\ \A r \in Requests : Len(th[r].calls) <= MaxCalls
    BY <1>1, IdleType DEF AgentInit
  <2>2. out \in [Requests -> Seq(Told)]
    BY DEF AgentInit
  <2>3. initialized \in [Providers -> {-1, 0, 1}] /\ expiries \in 0..MaxExpiries
    BY AgentAssumption DEF AgentInit
  <2>4. QED
    BY <2>1, <2>2, <2>3 DEF AgentInit, TypesInv
<1>3. PhaseInv
  BY <1>1 DEF PhaseInv, PhaseOK, Idle
<1>4. CredsInv
  <2>1. \A p \in Providers : initialized[p] = IF p = "xai" /\ XaiKey THEN 1 ELSE 0
    BY DEF AgentInit
  <2>2. TableInv
    BY <2>1 DEF TableInv, InitSucceeds
  <2>3. \A r \in Requests : ReliesOK(r)
    BY <1>1 DEF ReliesOK, Idle, Asks
  <2>4. QED
    BY <2>2, <2>3 DEF CredsInv
<1>5. TokenInv
  BY <1>1 DEF AgentInit, TokenInv, Busy, Idle
<1>6. ToldInv
  BY <1>1 DEF ToldInv, ToldOK, Orderly, Idle, Asks
<1>7. RoundsInv
  <2>1. \A r \in Requests : Rounds(r) = 0
    <3>1. \A r \in Requests : th[r].hist = <<>>
      BY <1>1 DEF Idle
    <3>2. QED
      BY <3>1, NoCallsYet, RoundsAre
  <2>2. QED
    BY <1>1, <2>1 DEF RoundsInv, RoundsOK, Idle, Asks
<1>8. HistInv
  <2>1. Pending(Idle.hist, ToDo(Idle))
    BY PendingNone DEF Idle
  <2> QED
    BY <1>1, <2>1 DEF HistInv, HistOK, Idle
<1>9. QED
  BY <1>2, <1>3, <1>4, <1>5, <1>6, <1>7, <1>8 DEF IInv

\* All layers hold in every state.
LEMMA Invariance == AgentSpec => []IInv
<1>1. AgentInit => IInv
  BY InvInit
<1>2. IInv /\ [AgentNext]_agentVars => IInv'
  BY TypesStep, PhaseStep, CredsStep, TokenStep, ToldStep, RoundsStep, HistStep DEF IInv
<1>3. QED
  BY <1>1, <1>2, PTL DEF AgentSpec

\* The variables of the request threads keep their types.
THEOREM AgentTypeCorrect == AgentSpec => []AgentTypeOK
<1>1. ASSUME IInv PROVE AgentTypeOK
  <2>1. \A r \in Requests : th[r] \in Thread /\ out[r] \in Seq(Told)
    BY <1>1 DEF IInv, TypesInv
  <2>2. QED
    BY <1>1, <2>1 DEF IInv, TypesInv, AgentTypeOK, Thread, Uses, Told
<1>2. QED
  BY <1>1, Invariance, PTL

\* As long as no two threads meet at the IBM token, ensure_token frees it once
\* and nobody reads it after its end.
THEOREM TokenUse == AgentSpec => []TokenSafe
<1>1. IInv => TokenSafe
  BY DEF IInv, TypesInv, TokenInv, TokenSafe
<1>2. QED
  BY <1>1, Invariance, PTL

\* What init of a provider accepts is what the user has to store for it.
LEMMA UsableIs == ASSUME NEW p \in Providers PROVE InitSucceeds(p) <=> Usable(p)
<1>1. p \in {"xai", "anthropic", "google", "ibm"}
  BY AgentAssumption
<1>2. CASE p = "xai"
  <2>1. Needs[p] = {{"grok_settings"}}
    BY <1>2 DEF Needs
  <2>2. QED
    BY <1>2, <2>1 DEF InitSucceeds, XaiKey, Usable
<1>3. CASE p = "anthropic"
  <2>1. Needs[p] = {{"ANTHROPIC_API_KEY"}, {"anthropic_file"}}
    BY <1>3 DEF Needs
  <2>2. QED
    BY <1>3, <2>1 DEF InitSucceeds, AnthropicKey, Usable
<1>4. CASE p = "google"
  <2>1. Needs[p] = {{"GEMINI_API_KEY"}, {"GOOGLE_API_KEY"}, {"gemini_file"}}
    BY <1>4 DEF Needs
  <2>2. QED
    BY <1>4, <2>1 DEF InitSucceeds, GoogleKey, Usable
<1>5. CASE p = "ibm"
  <2>1. Needs[p] = {{k, q} : k \in {"WATSONX_API_KEY", "watsonx_apiKey"},
                            q \in {"WATSONX_PROJECT_ID", "watsonx_projectId"}}
    BY <1>5 DEF Needs
  <2>2. Needs[p] = {{"WATSONX_API_KEY", "WATSONX_PROJECT_ID"},
                    {"WATSONX_API_KEY", "watsonx_projectId"},
                    {"watsonx_apiKey", "WATSONX_PROJECT_ID"},
                    {"watsonx_apiKey", "watsonx_projectId"}}
    <3>1. \A S \in Needs[p] : \/ S = {"WATSONX_API_KEY", "WATSONX_PROJECT_ID"}
                             \/ S = {"WATSONX_API_KEY", "watsonx_projectId"}
                             \/ S = {"watsonx_apiKey", "WATSONX_PROJECT_ID"}
                             \/ S = {"watsonx_apiKey", "watsonx_projectId"}
      <4> SUFFICES ASSUME NEW S \in Needs[p]
                   PROVE  \/ S = {"WATSONX_API_KEY", "WATSONX_PROJECT_ID"}
                          \/ S = {"WATSONX_API_KEY", "watsonx_projectId"}
                          \/ S = {"watsonx_apiKey", "WATSONX_PROJECT_ID"}
                          \/ S = {"watsonx_apiKey", "watsonx_projectId"}
        OBVIOUS
      <4>1. PICK k \in {"WATSONX_API_KEY", "watsonx_apiKey"},
                 q \in {"WATSONX_PROJECT_ID", "watsonx_projectId"} : S = {k, q}
        BY <2>1
      <4>2. QED
        BY <4>1
    <3>2. /\ {"WATSONX_API_KEY", "WATSONX_PROJECT_ID"} \in Needs[p]
          /\ {"WATSONX_API_KEY", "watsonx_projectId"} \in Needs[p]
          /\ {"watsonx_apiKey", "WATSONX_PROJECT_ID"} \in Needs[p]
          /\ {"watsonx_apiKey", "watsonx_projectId"} \in Needs[p]
      BY <2>1
    <3>3. QED
      BY <3>1, <3>2, Zenon
  <2>3. QED
    BY <1>5, <2>2 DEF InitSucceeds, IbmConfig, Usable
<1>6. QED
  BY <1>1, <1>2, <1>3, <1>4, <1>5

\* A request is sent only with complete credentials to the provider asked for
\* (a sub-query perhaps to xAI), and refused only when its provider cannot be
\* used, whatever other threads initialise meanwhile.
THEOREM ProviderUse == AgentSpec => []RightProvider
<1>1. ASSUME IInv PROVE RightProvider
  <2>1. ASSUME NEW r \in Requests
        PROVE  /\ th[r].pc \in {"wait", "bearer"} => Usable(th[r].prov)
               /\ th[r].pc = "wait" /\ th[r].use = "sub" =>
                    \/ th[r].prov = Head(th[r].calls)
                    \/ th[r].prov = "xai" /\ ~Usable(Head(th[r].calls))
               /\ Count(r, "error") = 1 => ~Usable(th[r].id)
               /\ th[r].pc = "looked" => initialized[th[r].prov] # 0
    <3>1. th[r] \in Thread /\ out[r] \in Seq(Told) /\ PhaseOK(th[r]) /\ ReliesOK(r) /\ TableInv
      BY <1>1 DEF IInv, TypesInv, PhaseInv, CredsInv
    <3>2. \A p \in Providers : /\ initialized[p] = 1 => Usable(p)
                               /\ initialized[p] = -1 => ~Usable(p)
      BY <3>1, UsableIs DEF TableInv
    <3>3. th[r].prov \in Providers /\ th[r].id \in Providers
      BY <3>1 DEF Thread
    <3>4. th[r].pc \in {"wait", "bearer"} => Usable(th[r].prov)
      BY <3>1, <3>2, <3>3 DEF ReliesOK, Asks
    <3>5. th[r].use = "sub" => \/ th[r].prov = Head(th[r].calls)
                               \/ th[r].prov = "xai" /\ ~Usable(Head(th[r].calls))
      BY <3>1, <3>2 DEF ReliesOK, PhaseOK
    <3>6. ASSUME Count(r, "error") = 1 PROVE ~Usable(th[r].id)
      <4>1. {i \in DOMAIN out[r] : out[r][i] = "error"} # {}
        BY <3>6, FS_EmptySet DEF Count
      <4>2. DOMAIN out[r] = 1..Len(out[r])
        BY <3>1, LenProperties
      <4>3. QED
        BY <3>1, <3>2, <3>3, <4>1, <4>2 DEF ReliesOK
    <3>7. QED
      BY <3>1, <3>4, <3>5, <3>6 DEF ReliesOK
  <2>2. QED
    BY <2>1 DEF RightProvider
<1>2. QED
  BY <1>1, Invariance, PTL

\* The TUI hears of sub-queries one at a time, each closed before the next
\* and before the reply; of one reply or error; and of a name only after it.
THEOREM TellingInOrder == AgentSpec => []ToldInOrder
<1>1. ASSUME IInv PROVE ToldInOrder
  <2>1. ASSUME NEW r \in Requests
        PROVE  /\ Count(r, "final") + Count(r, "error") <= 1
               /\ \A i \in DOMAIN out[r] :
                    /\ out[r][i] = "start" => Count(r, "error") = 0
                    /\ out[r][i] \in {"final", "error"} => (i > 1 => out[r][i - 1] = "end")
                    /\ out[r][i] = "end" => i > 1 /\ out[r][i - 1] = "start"
                    /\ out[r][i] = "start" => i = 1 \/ out[r][i - 1] = "end"
                    /\ out[r][i] = "rename" => i > 1 /\ out[r][i - 1] = "final"
    <3> DEFINE o == out[r]
               F == {i \in DOMAIN o : o[i] = "final"}
               E == {i \in DOMAIN o : o[i] = "error"}
    <3>1. Orderly(o) /\ Len(o) \in Nat /\ DOMAIN o = 1..Len(o)
      BY <1>1, LenProperties DEF IInv, TypesInv, ToldInv, ToldOK
    <3>2. Count(r, "final") = Cardinality(F) /\ Count(r, "error") = Cardinality(E)
      BY DEF Count
    <3>3. \A i, j \in F : i = j
      <4>1. ASSUME NEW i \in F, NEW j \in F, i < j PROVE FALSE
        <5>1. o[i] = "final" /\ o[j] = "final" /\ i \in 1..Len(o) /\ j \in 1..Len(o)
          BY <3>1
        <5>2. i + 1 = Len(o) /\ o[Len(o)] = "rename"
          BY <3>1, <4>1, <5>1 DEF Orderly
        <5>3. QED
          BY <4>1, <5>1, <5>2
      <4>2. \A i, j \in F : i \in Nat /\ j \in Nat
        BY <3>1
      <4>3. QED
        BY <4>1, <4>2
    <3>4. E # {} => E = {1} /\ F = {} /\ \A i \in DOMAIN o : o[i] # "start"
      BY <3>1 DEF Orderly
    <3>5. F = {} \/ \E i : F = {i}
      BY <3>3
    <3>6. Cardinality(F) \in {0, 1} /\ (F = {} => Cardinality(F) = 0)
      BY <3>5, FS_EmptySet, FS_Singleton
    <3>7. Cardinality(E) \in {0, 1} /\ (E = {} => Cardinality(E) = 0)
      BY <3>4, FS_EmptySet, FS_Singleton
    <3>8. Cardinality(F) + Cardinality(E) <= 1
      BY <3>4, <3>6, <3>7
    <3>9. \A i \in DOMAIN o : o[i] = "start" => Cardinality(E) = 0
      BY <3>4, <3>7
    <3>10. \A i \in DOMAIN o :
             /\ o[i] \in {"final", "error"} => (i > 1 => o[i - 1] = "end")
             /\ o[i] = "end" => i > 1 /\ o[i - 1] = "start"
             /\ o[i] = "start" => i = 1 \/ o[i - 1] = "end"
             /\ o[i] = "rename" => i > 1 /\ o[i - 1] = "final"
      BY <3>1 DEF Orderly
    <3>11. QED
      BY <3>2, <3>8, <3>9, <3>10
  <2>2. QED
    BY <2>1 DEF ToldInOrder
<1>2. QED
  BY <1>1, Invariance, PTL

\* The agentic loop gives a request up for its tool calls only after
\* MAX_TOOL_ITERS replies that had some, and never records more.
THEOREM GivingUp == AgentSpec => []GivesUpAtTheLimit
<1>1. ASSUME IInv PROVE GivesUpAtTheLimit
  <2>1. ASSUME NEW r \in Requests
        PROVE  /\ Rounds(r) <= MaxToolIters
               /\ th[r].pc = "final" /\ th[r].hist[Len(th[r].hist)].kind = "result"
                    /\ th[r].iters = Rounds(r) => Rounds(r) = MaxToolIters
    <3>1. th[r] \in Thread /\ RoundsOK(r) /\ PhaseOK(th[r])
      BY <1>1 DEF IInv, TypesInv, RoundsInv, PhaseInv
    <3>2. /\ th[r].iters \in 0..MaxToolIters /\ MaxToolIters \in Nat
          /\ th[r].pc \in Pcs /\ th[r].use \in Uses
      BY <3>1, AgentAssumption DEF Thread
    <3>3. Rounds(r) \in Nat
      BY <3>1, RoundsAre, CallsFinite DEF Thread
    <3>4. QED
      BY <3>1, <3>2, <3>3 DEF RoundsOK, PhaseOK, Asks, Pcs, Uses
  <2>2. QED
    BY <2>1 DEF GivesUpAtTheLimit
<1>2. QED
  BY <1>1, Invariance, PTL

-----------------------------------------------------------------------------
(* What is sent of a chat.                                                 *)

\* A set of numbers that is not empty has a least one.
LEMMA LeastNumber ==
    ASSUME NEW T \in SUBSET Nat, T # {}
    PROVE  \E n \in T : \A m \in T : n <= m
<1> DEFINE R == OpToRel(<, Nat)
<1>1. IsWellFoundedOn(R, Nat)
  BY NatLessThanWellFounded
<1>2. \E x \in T : \A y \in T : ~ (<<y, x>> \in R)
  BY <1>1, WFMin, Zenon
<1>3. \A x, y \in Nat : y < x => <<y, x>> \in R
  BY DEF OpToRel
<1> HIDE DEF R
<1>4. PICK n \in T : \A y \in T : ~ (<<y, n>> \in R)
  BY <1>2
<1>5. ASSUME NEW m \in T PROVE n <= m
  <2>1. n \in Nat /\ m \in Nat
    OBVIOUS
  <2>2. ~ (m < n)
    BY <1>3, <1>4, <2>1, Zenon
  <2> QED
    BY <2>1, <2>2
<1> QED
  BY <1>5

\* The first n messages.
LEMMA FirstOnes ==
    ASSUME NEW hist \in Seq(Message), NEW n \in 0..Len(hist)
    PROVE  /\ SubSeq(hist, 1, n) \in Seq(Message) /\ Len(SubSeq(hist, 1, n)) = n
           /\ \A i \in 1..n : SubSeq(hist, 1, n)[i] = hist[i]
<1>1. Len(hist) \in Nat /\ \A i \in 1..Len(hist) : hist[i] \in Message
  BY LenProperties, ElementOfSeq
<1>2. \A i \in 1..n : hist[i] \in Message
  BY <1>1
<1>3. 1 \in Int /\ n \in Int
  BY <1>1
<1>4. /\ SubSeq(hist, 1, n) \in Seq(Message)
      /\ Len(SubSeq(hist, 1, n)) = IF 1 <= n THEN n - 1 + 1 ELSE 0
      /\ \A i \in 1..(n - 1 + 1) : SubSeq(hist, 1, n)[i] = hist[1 + i - 1]
  BY ONLY <1>2, <1>3, SubSeqProperties
<1> QED
  BY <1>1, <1>4

LEMMA OneMore ==
    ASSUME NEW hist \in Seq(Message), NEW n \in 1..Len(hist)
    PROVE  SubSeq(hist, 1, n) = Append(SubSeq(hist, 1, n - 1), hist[n])
<1>1. Len(hist) \in Nat /\ n \in 0..Len(hist) /\ n - 1 \in 0..Len(hist) /\ hist[n] \in Message
  BY LenProperties, ElementOfSeq
<1>2. PICK a : a = SubSeq(hist, 1, n - 1)
  OBVIOUS
<1>3. a \in Seq(Message) /\ Len(a) = n - 1 /\ \A i \in 1..(n - 1) : a[i] = hist[i]
  BY ONLY <1>1, <1>2, FirstOnes, hist \in Seq(Message)
<1>4. PICK b : b = Append(a, hist[n])
  OBVIOUS
<1>5. /\ b \in Seq(Message) /\ Len(b) = Len(a) + 1
      /\ \A i \in 1..Len(a) : b[i] = a[i]
      /\ b[Len(a) + 1] = hist[n]
  BY ONLY <1>1, <1>3, <1>4, AppendProperties
<1>6. PICK c : c = SubSeq(hist, 1, n)
  OBVIOUS
<1>7. c \in Seq(Message) /\ Len(c) = n /\ \A i \in 1..n : c[i] = hist[i]
  BY ONLY <1>1, <1>6, FirstOnes, hist \in Seq(Message)
<1>8. Len(b) = n
  BY <1>1, <1>3, <1>5
<1>9. ASSUME NEW i \in 1..Len(c)
      PROVE  c[i] = b[i]
  <2>1. CASE i = n
    BY <1>1, <1>3, <1>5, <1>7, <2>1
  <2>2. CASE i \in 1..(n - 1)
    BY <1>3, <1>5, <1>7, <2>2
  <2> QED
    BY <1>1, <1>7, <2>1, <2>2
<1>10. c = b
  BY ONLY <1>5, <1>7, <1>8, <1>9, SeqEqual
<1> QED
  BY <1>2, <1>4, <1>6, <1>10

\* A chat without calls and results is passed on as it is.
LEMMA TurnsAll ==
    ASSUME NEW hist \in Seq(Message),
           \A i \in 1..Len(hist) : hist[i].kind \in {"user", "assistant"}
    PROVE  Turns(hist) = hist
<1> DEFINE L == Len(hist)
           Go(f) == [n \in 0..L |->
                        IF n = 0 THEN <<>>
                        ELSE IF Skipped(hist[n]) THEN f[n - 1] ELSE Append(f[n - 1], hist[n])]
           F == CHOOSE f : f = Go(f)
           G == [n \in 0..L |-> SubSeq(hist, 1, n)]
<1>1. Turns(hist) = F[L]
  BY DEF Turns
<1>2. L \in Nat
  BY LenProperties
<1>3. \A n \in 1..L : ~Skipped(hist[n])
  BY DEF Skipped
<1>4. SubSeq(hist, 1, 0) = <<>>
  <2>1. 0 \in 0..Len(hist)
    BY <1>2
  <2>2. SubSeq(hist, 1, 0) \in Seq(Message) /\ Len(SubSeq(hist, 1, 0)) = 0
    BY ONLY <2>1, FirstOnes, hist \in Seq(Message)
  <2> QED
    BY <2>2, EmptySeq
<1>5. SubSeq(hist, 1, L) = hist
  <2>1. L \in 0..Len(hist)
    BY <1>2
  <2>2. PICK a : a = SubSeq(hist, 1, L)
    OBVIOUS
  <2>3. a \in Seq(Message) /\ Len(a) = L /\ \A i \in 1..L : a[i] = hist[i]
    BY ONLY <2>1, <2>2, FirstOnes, hist \in Seq(Message)
  <2>4. a = hist
    BY ONLY <2>3, SeqEqual, hist \in Seq(Message)
  <2> QED
    BY <2>2, <2>4
<1>6. \A n \in 1..L : SubSeq(hist, 1, n) = Append(SubSeq(hist, 1, n - 1), hist[n])
  BY OneMore
<1>7. F = Go(F)
  <2>1. ASSUME NEW n \in 0..L
        PROVE  G[n] = Go(G)[n]
    <3>1. CASE n = 0
      BY <1>4, <3>1
    <3>2. CASE n \in 1..L
      <4>1. n - 1 \in 0..L /\ n # 0
        BY <1>2, <3>2
      <4>2. G[n - 1] = SubSeq(hist, 1, n - 1)
        BY <4>1
      <4>3. Go(G)[n] = Append(G[n - 1], hist[n])
        BY <1>3, <2>1, <3>2, <4>1
      <4> QED
        BY <1>6, <2>1, <3>2, <4>2, <4>3
    <3> QED
      BY <1>2, <3>1, <3>2
  <2>2. G = Go(G)
    BY <2>1
  <2> QED
    BY <2>2
<1> HIDE DEF F
<1>8. \A n \in 0..L : F[n] = IF n = 0 THEN <<>>
                              ELSE IF Skipped(hist[n]) THEN F[n - 1] ELSE Append(F[n - 1], hist[n])
  BY <1>7
<1>9. \A n \in 0..L : F[n] = SubSeq(hist, 1, n)
  <2> DEFINE B == {n \in 0..L : F[n] # SubSeq(hist, 1, n)}
  <2> SUFFICES ASSUME B # {}
      PROVE  FALSE
    OBVIOUS
  <2>1. PICK n \in B : \A m \in B : n <= m
    <3>1. B \in SUBSET Nat
      BY <1>2
    <3> HIDE DEF B
    <3> QED
      BY <3>1, LeastNumber
  <2>2. n \in 1..L
    <3>1. F[0] = <<>>
      <4>1. 0 \in 0..L
        BY <1>2
      <4> QED
        BY ONLY <1>8, <4>1
    <3>2. n # 0
      BY <1>4, <2>1, <3>1
    <3> QED
      BY <1>2, <2>1, <3>2
  <2>3. n - 1 \in 0..L /\ n - 1 \notin B
    <3>1. n - 1 \in 0..L /\ ~(n <= n - 1)
      BY <1>2, <2>2
    <3> HIDE DEF B
    <3> QED
      BY <2>1, <3>1
  <2>4. F[n - 1] = SubSeq(hist, 1, n - 1)
    BY <2>3
  <2>5. F[n] = Append(F[n - 1], hist[n])
    <3>1. n \in 0..L /\ n # 0 /\ ~Skipped(hist[n])
      BY <1>2, <1>3, <2>2
    <3> QED
      BY ONLY <1>8, <3>1
  <2> QED
    BY <1>6, <2>2, <2>4, <2>5
<1> QED
  BY <1>1, <1>2, <1>5, <1>9
\* What a request's body has to be for the chat hist.
Answers(body, hist) ==
    LET chat == {i \in DOMAIN body : body[i].role # "system"}
    IN  /\ Cardinality(chat) = Len(hist)
        /\ \E i \in chat : body[i].role = "user" /\ \A j \in chat : i <= j
        /\ \A i \in DOMAIN body : body[i].of.kind = "calls" =>
            /\ i + body[i].of.n <= Len(body)
            /\ \A k \in 1..body[i].of.n :
                /\ body[i + k].role = "tool"
                /\ body[i + k].of.n = body[i].of.n + 1 - k

\* The body holds the messages of hist, after d others for the system.
Holds(body, hist, d) ==
    /\ DOMAIN body = 1..(Len(hist) + d) /\ Len(body) = Len(hist) + d
    /\ \A i \in 1..d : body[i].role = "system" /\ body[i].of.kind # "calls"
    /\ \A i \in 1..Len(hist) :
        /\ body[i + d].of = hist[i] /\ body[i + d].role # "system"
        /\ hist[i].kind = "user" => body[i + d].role = "user"
        /\ hist[i].kind = "result" => body[i + d].role = "tool"

LEMMA HoldsAnswers ==
    ASSUME NEW hist \in Seq(Message), hist # <<>>, hist[1].kind = "user", Pending(hist, 0),
           NEW d \in {0, 1}, NEW body, Holds(body, hist, d)
    PROVE  Answers(body, hist)
<1> DEFINE L == Len(hist)
           chat == {i \in DOMAIN body : body[i].role # "system"}
<1>1. L \in Nat \ {0} /\ \A i \in 1..L : hist[i] \in Message
  BY LenProperties, EmptySeq, ElementOfSeq
<1>2. \A i \in 1..L : hist[i].n \in Nat
  BY <1>1, AgentAssumption DEF Message
<1>3. /\ DOMAIN body = 1..(L + d) /\ Len(body) = L + d
      /\ \A i \in 1..d : body[i].role = "system" /\ body[i].of.kind # "calls"
      /\ \A i \in 1..L :
          /\ body[i + d].of = hist[i] /\ body[i + d].role # "system"
          /\ hist[i].kind = "user" => body[i + d].role = "user"
          /\ hist[i].kind = "result" => body[i + d].role = "tool"
  BY DEF Holds
<1>4. \A i \in 1..L : hist[i].kind = "calls" =>
        /\ i + hist[i].n <= L
        /\ \A k \in 1..hist[i].n : hist[i + k].kind = "result" /\ hist[i + k].n = hist[i].n + 1 - k
  <2> SUFFICES ASSUME NEW i \in 1..L, hist[i].kind = "calls"
      PROVE  /\ i + hist[i].n <= L
             /\ \A k \in 1..hist[i].n :
                  hist[i + k].kind = "result" /\ hist[i + k].n = hist[i].n + 1 - k
    OBVIOUS
  <2>1. /\ i + hist[i].n <= L \/ i + hist[i].n = L + 0
        /\ \A k \in 1..hist[i].n : i + k <= L =>
              hist[i + k].kind = "result" /\ hist[i + k].n = hist[i].n + 1 - k
    BY DEF Pending
  <2>2. hist[i].n \in Nat
    BY <1>2
  <2>3. i + hist[i].n <= L
    BY <1>1, <2>1, <2>2
  <2>4. \A k \in 1..hist[i].n : i + k <= L
    BY <1>1, <2>2, <2>3
  <2> QED
    BY <2>1, <2>3, <2>4
<1> HIDE DEF L
<1>5. chat = (d + 1)..(L + d)
  <2>1. ASSUME NEW i \in 1..(L + d)
        PROVE  body[i].role # "system" <=> i \in (d + 1)..(L + d)
    <3>1. CASE i \in 1..d
      <4>1. i \notin (d + 1)..(L + d)
        BY <3>1
      <4> QED
        BY <1>3, <3>1, <4>1
    <3>2. CASE i \in (d + 1)..(L + d)
      <4>1. i - d \in 1..L /\ (i - d) + d = i
        BY <1>1, <3>2
      <4>2. body[(i - d) + d].role # "system"
        BY <1>3, <4>1
      <4> QED
        BY <3>2, <4>1, <4>2
    <3> QED
      BY <1>1, <2>1, <3>1, <3>2
  <2>2. (d + 1)..(L + d) \subseteq 1..(L + d)
    BY <1>1
  <2> QED
    BY <1>3, <2>1, <2>2
<1>6. Cardinality(chat) = L
  <2>1. d + 1 \in Int /\ L + d \in Int
    BY <1>1
  <2>2. PICK a, b : a = d + 1 /\ b = L + d
    OBVIOUS
  <2>3. Cardinality(a..b) = IF a > b THEN 0 ELSE b - a + 1
    BY ONLY <2>1, <2>2, FS_Interval
  <2>4. ~(a > b) /\ b - a + 1 = L
    BY <1>1, <2>2
  <2> HIDE DEF chat
  <2> QED
    BY <1>5, <2>2, <2>3, <2>4
<1>7. \E i \in chat : body[i].role = "user" /\ \A j \in chat : i <= j
  <2>1. 1 \in 1..L /\ 1 + d = d + 1
    BY <1>1
  <2>2. body[d + 1].role = "user"
    BY <1>3, <2>1
  <2>3. d + 1 \in (d + 1)..(L + d) /\ \A j \in (d + 1)..(L + d) : d + 1 <= j
    BY <1>1
  <2> HIDE DEF chat
  <2> QED
    BY <1>5, <2>2, <2>3
<1>8. ASSUME NEW i \in DOMAIN body, body[i].of.kind = "calls"
      PROVE  /\ i + body[i].of.n <= Len(body)
             /\ \A k \in 1..body[i].of.n :
                  body[i + k].role = "tool" /\ body[i + k].of.n = body[i].of.n + 1 - k
  <2>1. i \in 1..(L + d) /\ i \notin 1..d
    BY <1>3, <1>8
  <2>2. PICK j \in 1..L : i = j + d
    <3>1. i - d \in 1..L /\ i = (i - d) + d
      BY <1>1, <2>1
    <3> QED
      BY <3>1
  <2>3. body[i].of = hist[j] /\ hist[j].kind = "calls"
    BY <1>3, <1>8, <2>2
  <2>4. PICK n \in Nat : n = hist[j].n
    BY <1>2
  <2>5. /\ j + n <= L
        /\ \A k \in 1..n : hist[j + k].kind = "result" /\ hist[j + k].n = n + 1 - k
    BY <1>4, <2>3, <2>4
  <2>6. ASSUME NEW k \in 1..n
        PROVE  body[i + k].role = "tool" /\ body[i + k].of.n = n + 1 - k
    <3>1. j + k \in 1..L /\ i + k = (j + k) + d
      BY <1>1, <2>2, <2>5
    <3>2. body[(j + k) + d].of = hist[j + k]
      BY <1>3, <3>1
    <3>3. body[(j + k) + d].role = "tool"
      BY <1>3, <2>5, <3>1
    <3> QED
      BY <2>5, <3>1, <3>2, <3>3
  <2>7. i + n <= L + d
    BY <1>1, <2>2, <2>5
  <2> QED
    BY <1>3, <2>3, <2>4, <2>6, <2>7
<1> QED
  BY <1>6, <1>7, <1>8 DEF Answers, L

\* xAI's body, with the tools' system message or without.
LEMMA XaiBodyHolds ==
    ASSUME NEW hist \in Seq(Message), NEW tools \in BOOLEAN
    PROVE  Holds(XaiBody(hist, tools), hist, IF tools THEN 1 ELSE 0)
<1> DEFINE L == Len(hist)
           f == [i \in 1..L |-> [role |-> XaiRole(hist[i]), of |-> hist[i]]]
           sys == [role |-> "system", of |-> Msg("assistant", 0, TRUE)]
           T == [role : {"system", "tool", "user", "assistant"}, of : Message]
<1>1. L \in Nat /\ \A i \in 1..L : hist[i] \in Message
  BY LenProperties, ElementOfSeq
<1>2. /\ \A m : XaiRole(m) \in {"tool", "user", "assistant"}
      /\ \A m : m.kind = "user" => XaiRole(m) = "user"
      /\ \A m : m.kind = "result" => XaiRole(m) = "tool"
  BY DEF XaiRole
<1>3. sys \in T
  BY MessageTypes
<1>4. f \in [1..L -> T]
  BY <1>1, <1>2
<1>5. f \in Seq(T)
  BY <1>1, <1>4, SeqDef
<1>6. Len(f) = L /\ DOMAIN f = 1..L
  BY <1>1, <1>4, <1>5, LenProperties
<1>7. \A i \in 1..L : f[i].of = hist[i] /\ f[i].role = XaiRole(hist[i])
  OBVIOUS
<1>8. XaiBody(hist, tools) = (IF tools THEN <<sys>> ELSE <<>>) \o f
  BY DEF XaiBody
<1>9. <<sys>> \in Seq(T) /\ Len(<<sys>>) = 1 /\ <<sys>>[1] = sys
  <2> HIDE DEF T, sys
  <2> QED
    BY <1>3
<1>10. sys.role = "system" /\ sys.of.kind # "calls"
  BY DEF Msg
<1> HIDE DEF L, f, sys, T
<1>11. CASE tools
  <2>1. PICK b : b = <<sys>> \o f
    OBVIOUS
  <2>2. /\ b \in Seq(T) /\ Len(b) = 1 + L
        /\ \A i \in 1..(1 + L) : b[i] = IF i <= 1 THEN <<sys>>[i] ELSE f[i - 1]
    BY ONLY <1>5, <1>6, <1>9, <2>1, ConcatProperties
  <2>3. DOMAIN b = 1..(L + 1) /\ Len(b) = L + 1
    BY <1>1, <2>2, LenProperties
  <2>4. b[1] = sys
    BY <1>1, <1>9, <2>2
  <2>5. ASSUME NEW i \in 1..L
        PROVE  b[i + 1] = f[i]
    BY <1>1, <2>2
  <2>6. Holds(b, hist, 1)
    <3>1. \A i \in 1..1 : b[i].role = "system" /\ b[i].of.kind # "calls"
      BY <1>10, <2>4
    <3>2. \A i \in 1..L :
            /\ b[i + 1].of = hist[i] /\ b[i + 1].role # "system"
            /\ hist[i].kind = "user" => b[i + 1].role = "user"
            /\ hist[i].kind = "result" => b[i + 1].role = "tool"
      BY <1>2, <1>7, <2>5
    <3> QED
      BY <2>3, <3>1, <3>2 DEF Holds, L
  <2> QED
    BY <1>8, <1>11, <2>1, <2>6
<1>12. CASE ~tools
  <2>1. <<>> \o f = f
    BY <1>5, ConcatEmptySeq
  <2>2. Holds(f, hist, 0)
    <3>1. \A i \in 1..L : i + 0 = i
      BY <1>1
    <3>2. L + 0 = L /\ \A i \in 1..0 : FALSE
      BY <1>1
    <3>3. \A i \in 1..L :
            /\ f[i + 0].of = hist[i] /\ f[i + 0].role # "system"
            /\ hist[i].kind = "user" => f[i + 0].role = "user"
            /\ hist[i].kind = "result" => f[i + 0].role = "tool"
      BY <1>2, <1>7, <3>1
    <3> QED
      BY <1>6, <3>2, <3>3 DEF Holds, L
  <2> QED
    BY <1>8, <1>12, <2>1, <2>2
<1> QED
  BY <1>11, <1>12

\* The bodies of the others, which pass over nothing here.
LEMMA OtherBodyHolds ==
    ASSUME NEW hist \in Seq(Message),
           \A i \in 1..Len(hist) : hist[i].kind \in {"user", "assistant"},
           NEW model \in {"assistant", "model"}, NEW body,
           body = [i \in 1..Len(Turns(hist)) |->
                     [role |-> IF Turns(hist)[i].kind = "user" THEN "user" ELSE model,
                      of |-> Turns(hist)[i]]]
    PROVE  Holds(body, hist, 0)
<1> DEFINE L == Len(hist)
<1>1. L \in Nat /\ Turns(hist) = hist
  BY TurnsAll, LenProperties
<1>2. body = [i \in 1..L |-> [role |-> IF hist[i].kind = "user" THEN "user" ELSE model,
                              of |-> hist[i]]]
  BY <1>1
<1>3. Len(body) = L /\ DOMAIN body = 1..L
  BY <1>1, <1>2
<1>4. \A i \in 1..L : /\ body[i].of = hist[i] /\ body[i].role # "system"
                      /\ hist[i].kind = "user" => body[i].role = "user"
                      /\ hist[i].kind # "result"
  BY <1>2
<1>5. L + 0 = L /\ (\A i \in 1..0 : FALSE) /\ \A i \in 1..L : i + 0 = i
  BY <1>1
<1> QED
  BY <1>3, <1>4, <1>5 DEF Holds

\* Every chat that is sent to a provider has, for each tool call in it, the
\* call's result right behind it and in order, whatever tools the replies ask
\* for, whichever providers the sub-queries fall back to; and no provider's
\* build_body drops or adds a message.
THEOREM Answered == AgentSpec => []CallsAnswered
<1>1. ASSUME IInv PROVE CallsAnswered
  <2> SUFFICES ASSUME NEW r \in Requests, th[r].pc = "wait"
      PROVE  Answers(Body(r), Chat(r))
    BY DEF CallsAnswered, Answers
  <2>1. th[r] \in Thread /\ PhaseOK(th[r]) /\ HistOK(th[r])
    BY <1>1 DEF IInv, TypesInv, PhaseInv, HistInv
  <2>2. /\ th[r].use \in Uses /\ th[r].hist \in Seq(Message)
        /\ th[r].prov \in {"xai", "anthropic", "google", "ibm"}
    BY <2>1, AgentAssumption DEF Thread
  <2>3. th[r].use = "main" => th[r].prov = th[r].id
    BY <2>1 DEF PhaseOK
  <2>4. PICK hist : hist = Chat(r)
    OBVIOUS
  <2>5. /\ hist \in Seq(Message) /\ hist # <<>> /\ hist[1].kind = "user" /\ Pending(hist, 0)
        /\ th[r].prov # "xai" => \A i \in 1..Len(hist) : hist[i].kind \in {"user", "assistant"}
    <3>1. CASE th[r].use = "main"
      <4>1. hist = th[r].hist
        BY <2>4, <3>1 DEF Chat
      <4>2. ToDo(th[r]) = 0
        BY <3>1 DEF ToDo
      <4> QED
        BY <2>1, <2>2, <2>3, <3>1, <4>1, <4>2 DEF HistOK
    <3>2. CASE th[r].use # "main"
      <4>1. hist = <<User>> /\ User \in Message /\ User.kind = "user"
        BY <2>4, <3>2, MessageTypes DEF Chat, User, Msg
      <4>2. /\ hist \in Seq(Message) /\ hist # <<>> /\ hist[1].kind = "user"
            /\ \A i \in 1..Len(hist) : hist[i].kind = "user"
        BY <4>1
      <4> QED
        BY <4>2, PendingNone
    <3> QED
      BY <3>1, <3>2
  <2>6. \E d \in {0, 1} : Holds(Body(r), hist, d)
    <3>1. CASE th[r].prov = "xai"
      <4>1. Body(r) = XaiBody(hist, SupportsTools(r)) /\ SupportsTools(r) \in BOOLEAN
        BY <2>4, <3>1 DEF Body, SupportsTools
      <4> QED
        BY <2>5, <4>1, XaiBodyHolds
    <3>2. CASE th[r].prov \in {"anthropic", "ibm"}
      <4>1. Body(r) = [i \in 1..Len(Turns(hist)) |->
                         [role |-> IF Turns(hist)[i].kind = "user" THEN "user" ELSE "assistant",
                          of |-> Turns(hist)[i]]]
        BY <2>4, <3>2 DEF Body, AnthropicBody, IbmBody
      <4> QED
        BY <2>5, <3>2, <4>1, OtherBodyHolds
    <3>3. CASE th[r].prov = "google"
      <4>1. Body(r) = [i \in 1..Len(Turns(hist)) |->
                         [role |-> IF Turns(hist)[i].kind = "user" THEN "user" ELSE "model",
                          of |-> Turns(hist)[i]]]
        BY <2>4, <3>3 DEF Body, GoogleBody
      <4> QED
        BY <2>5, <3>3, <4>1, OtherBodyHolds
    <3> QED
      BY <2>2, <3>1, <3>2, <3>3
  <2> QED
    BY <2>4, <2>5, <2>6, HoldsAnswers
<1>2. QED
  BY <1>1, Invariance, PTL
=============================================================================
