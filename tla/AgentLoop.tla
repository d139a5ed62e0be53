----------------------------- MODULE AgentLoop -----------------------------
(***************************************************************************)
(* A chat request in the backend: handle_request and run_subquery of       *)
(* src/backend/backend.c, the provider table behind get_provider, and what *)
(* the four providers (src/providers) do of their own: find credentials,   *)
(* turn a chat into a request body, read a reply, and, for IBM, keep an    *)
(* access token that all threads share.                                    *)
(*                                                                         *)
(* One thread per request.  A conversation is the sequence of its          *)
(* messages, without their texts.  The HTTP services are external: a reply *)
(* is any the parser can return, and one always comes (or the time-out).   *)
(* A request names one of the providers: the TUI starts with xAI and takes *)
(* others from provider_registry only, whose ids are those of              *)
(* backend_providers.                                                      *)
(***************************************************************************)
EXTENDS Naturals, Sequences, SequencesExt, FiniteSets

CONSTANTS
    Requests,      \* the chat requests, and the threads that serve them
    Providers,     \* those that occur: a subset of backend_providers
    CallKinds,     \* the tool calls that occur: see Call
    MaxToolIters,  \* MAX_TOOL_ITERS (5 in the code)
    MaxCalls,      \* bound: tool calls in one reply
    MaxExpiries,   \* bound: hours that pass
    Asking,        \* bound: for each request, the provider ids and first turns it may have
    Configs        \* bound: sets of credentials the user may have stored

\* A tool call: ask_ai for a model of a provider, or one that is answered with
\* a placeholder, because it is another tool or its arguments do not parse.
Call == Providers \cup {"no_query"}

\* Environment variables, files, and entries of files, those that README.md
\* names and the code does not read included.
Credentials ==
    {"XAI_API_KEY", "grok_settings", "ANTHROPIC_API_KEY", "anthropic_file", "GEMINI_API_KEY",
     "GOOGLE_API_KEY", "gemini_file", "WATSONX_API_KEY", "WATSONX_PROJECT_ID",
     "watsonx_apiKey", "watsonx_projectId", "watsonx_api_key", "watsonx_project_id"}

ASSUME AgentAssumption ==
    /\ "xai" \in Providers /\ Providers \subseteq {"xai", "anthropic", "google", "ibm"}
    /\ CallKinds \subseteq Call
    /\ MaxToolIters \in Nat \ {0} /\ MaxCalls \in Nat /\ MaxExpiries \in Nat
    /\ Configs \subseteq SUBSET Credentials
    /\ Asking \in [Requests -> SUBSET (Providers \X BOOLEAN)]

VARIABLES
    config,        \* the credentials in the environment and in the user's files
    initialized,   \* backend_providers[].initialized
    th,            \* the thread of each request
    out,           \* what it sent to the TUI, in order
    token,         \* what iam_token points to: "none", "live" or "freed"
    fresh,         \* time(NULL) < token_expiry
    expiries,
    \* History.
    shared,        \* two threads were at work on the token at once
    misused        \* a token was freed twice, or read after its end

tokenVars == <<token, fresh, expiries, shared, misused>>
agentVars == <<config, initialized, th, out, tokenVars>>

Contents == {"none", "empty", "text"}
Plain(content) == [content |-> content, calls |-> <<>>]
Message == [kind : {"user", "assistant", "calls", "result"}, n : 0..MaxCalls, text : BOOLEAN]
Msg(kind, n, text) == [kind |-> kind, n |-> n, text |-> text]
User == Msg("user", 0, TRUE)

\* The chat the TUI sends: its first message, or a later one.
Asked(first) == IF first THEN <<User>> ELSE <<User, Msg("assistant", 0, TRUE), User>>

Idle == [pc |-> "idle", use |-> "main", id |-> "xai", prov |-> "xai", first |-> FALSE,
         iters |-> 0, hist |-> <<>>, calls |-> <<>>, content |-> "none"]

Pcs == {"idle", "lookup", "looked", "send", "exchange", "expiry", "bearer", "wait",
        "tools", "end_sub", "final", "done"}

AgentTypeOK ==
    /\ config \in Configs
    /\ initialized \in [Providers -> {-1, 0, 1}]
    /\ \A r \in Requests :
        /\ th[r].pc \in Pcs /\ th[r].use \in {"main", "sub", "name"}
        /\ {th[r].id, th[r].prov} \subseteq Providers
        /\ th[r].iters \in 0..MaxToolIters
        /\ th[r].hist \in Seq(Message)
        /\ th[r].calls \in Seq(Call) /\ Len(th[r].calls) <= MaxCalls
        /\ th[r].content \in Contents
        /\ out[r] \in Seq({"start", "end", "final", "error", "rename"})
    /\ token \in {"none", "live", "freed"}
    /\ {fresh, shared, misused} \subseteq BOOLEAN
    /\ expiries \in 0..MaxExpiries

-----------------------------------------------------------------------------
(* Credentials: the read functions of the providers.                       *)

\* The faulty variant is satisfied with one of the two.
IbmConfigEither ==
    config \cap {"WATSONX_API_KEY", "watsonx_apiKey", "WATSONX_PROJECT_ID", "watsonx_projectId"} # {}

\* read_config takes the key and the project each from the environment or,
\* when one of them is not there, from the file.
IbmConfig ==
    /\ config \cap {"WATSONX_API_KEY", "watsonx_apiKey"} # {}
    /\ config \cap {"WATSONX_PROJECT_ID", "watsonx_projectId"} # {}

XaiKey == "grok_settings" \in config
AnthropicKey == config \cap {"ANTHROPIC_API_KEY", "anthropic_file"} # {}
GoogleKey == config \cap {"GEMINI_API_KEY", "GOOGLE_API_KEY", "gemini_file"} # {}

\* provider->init
InitSucceeds(p) ==
    \/ p = "xai" /\ XaiKey
    \/ p = "anthropic" /\ AnthropicKey
    \/ p = "google" /\ GoogleKey
    \/ p = "ibm" /\ IbmConfig

-----------------------------------------------------------------------------
(* Request bodies: the build_body functions.                               *)

XaiRole(m) ==
    CASE m.kind = "result" -> "tool"
      [] m.kind = "user"   -> "user"
      [] OTHER             -> "assistant"

XaiBody(hist, tools) ==
    (IF tools THEN <<[role |-> "system", of |-> Msg("assistant", 0, TRUE)]>> ELSE <<>>)
        \o [i \in 1..Len(hist) |-> [role |-> XaiRole(hist[i]), of |-> hist[i]]]

\* The others pass over tool results, and tool calls that come without text.
Skipped(m) == m.kind = "result" \/ (m.kind = "calls" /\ ~m.text)

Turns(hist) ==
    LET Upto[n \in 0..Len(hist)] ==
            IF n = 0 THEN <<>>
            ELSE IF Skipped(hist[n]) THEN Upto[n - 1] ELSE Append(Upto[n - 1], hist[n])
    IN  Upto[Len(hist)]

AnthropicBody(hist) ==
    [i \in 1..Len(Turns(hist)) |->
        [role |-> IF Turns(hist)[i].kind = "user" THEN "user" ELSE "assistant",
         of |-> Turns(hist)[i]]]

IbmBody(hist) ==
    [i \in 1..Len(Turns(hist)) |->
        [role |-> IF Turns(hist)[i].kind = "user" THEN "user" ELSE "assistant",
         of |-> Turns(hist)[i]]]

GoogleBody(hist) ==
    [i \in 1..Len(Turns(hist)) |->
        [role |-> IF Turns(hist)[i].kind = "user" THEN "user" ELSE "model",
         of |-> Turns(hist)[i]]]

\* handle_request injects ask_ai only for xAI.
SupportsTools(r) == th[r].use = "main" /\ th[r].id = "xai"

\* The chat of a sub-query or of the naming is one user message.
Chat(r) == IF th[r].use = "main" THEN th[r].hist ELSE <<User>>

Body(r) ==
    CASE th[r].prov = "xai"       -> XaiBody(Chat(r), SupportsTools(r))
      [] th[r].prov = "anthropic" -> AnthropicBody(Chat(r))
      [] th[r].prov = "google"    -> GoogleBody(Chat(r))
      [] th[r].prov = "ibm"       -> IbmBody(Chat(r))

-----------------------------------------------------------------------------
(* Replies: what the send functions can return.  NULL has the effect of a  *)
(* reply without content and without calls, and is not told apart.         *)

XaiReplies(tools) ==
    [content : Contents,
     calls : IF tools THEN UNION {[1..n -> CallKinds] : n \in 0..MaxCalls} ELSE {<<>>}]
AnthropicReplies == {Plain(c) : c \in Contents}
GoogleReplies == {Plain(c) : c \in Contents}
IbmReplies == {Plain(c) : c \in Contents}

Replies(r) ==
    CASE th[r].prov = "xai"       -> XaiReplies(SupportsTools(r))
      [] th[r].prov = "anthropic" -> AnthropicReplies
      [] th[r].prov = "google"    -> GoogleReplies
      [] th[r].prov = "ibm"       -> IbmReplies

-----------------------------------------------------------------------------
(* Steps of a thread.                                                      *)

Goto(r, pc) == th' = [th EXCEPT ![r].pc = pc]
\* The thread is gone, and its chat with it.
Finish(r) == th' = [th EXCEPT ![r] = [Idle EXCEPT !.pc = "done", !.id = th[r].id]]
Tell(r, kind) == out' = [out EXCEPT ![r] = Append(@, kind)]

Accept(r, id, first) ==
    /\ th[r].pc = "idle"
    /\ th' = [th EXCEPT ![r] = [Idle EXCEPT !.pc = "lookup", !.id = id, !.prov = id,
                                            !.first = first, !.hist = Asked(first)]]
    /\ UNCHANGED <<config, initialized, out, tokenVars>>

\* get_provider: the table is looked at and filled under init_mutex.
InitProvider(r) ==
    /\ th[r].pc = "lookup"
    /\ initialized' = IF initialized[th[r].prov] # 0 THEN initialized
                      ELSE [initialized EXCEPT ![th[r].prov] =
                                IF InitSucceeds(th[r].prov) THEN 1 ELSE -1]
    /\ Goto(r, "looked")
    /\ UNCHANGED <<config, out, tokenVars>>

\* ... and read again after the mutex is released.
HasProvider(r) ==
    /\ th[r].pc = "looked" /\ initialized[th[r].prov] = 1
    /\ th' = [th EXCEPT ![r].pc = "send",
                        ![r].iters = IF th[r].use = "main" THEN 1 ELSE @]
    /\ UNCHANGED <<config, initialized, out, tokenVars>>

\* Without its provider a request is answered with an error, a sub-query
\* turns to xAI, and a session keeps its name.  (A sub-query without xAI does
\* not occur: only xAI, which is there then, asks for one.)
NoProvider(r) ==
    /\ th[r].pc = "looked" /\ initialized[th[r].prov] # 1
    /\ CASE th[r].use = "main" -> Finish(r) /\ Tell(r, "error")
         [] th[r].use = "sub" /\ th[r].prov # "xai" ->
                /\ th' = [th EXCEPT ![r].prov = "xai", ![r].pc = "lookup"]
                /\ UNCHANGED out
         [] th[r].use = "sub" /\ th[r].prov = "xai" -> Goto(r, "end_sub") /\ UNCHANGED out
         [] th[r].use = "name" -> Finish(r) /\ UNCHANGED out
    /\ UNCHANGED <<config, initialized, tokenVars>>

\* prov->send: IBM looks at its token first.
Send(r) ==
    /\ th[r].pc = "send" /\ th[r].prov # "ibm"
    /\ Goto(r, "wait")
    /\ UNCHANGED <<config, initialized, out, tokenVars>>

\* Where a thread goes on when send returns NULL.
NoReply(r) == IF th[r].use = "main" THEN "final" ELSE "end_sub"

\* Threads that are between the check of the token and its use.
Busy(r) == th[r].pc \in {"exchange", "expiry", "bearer"}
Alone(r) == \A q \in Requests \ {r} : ~Busy(q)

\* ensure_token: a token that is there and has not expired will do ...
TokenGood(r) ==
    /\ th[r].pc = "send" /\ th[r].prov = "ibm"
    /\ token # "none" /\ fresh
    /\ Goto(r, "bearer")
    /\ shared' = (shared \/ ~Alone(r))
    /\ UNCHANGED <<config, initialized, out, token, fresh, expiries, misused>>

\* ... else it is freed, while iam_token still points to it, ...
TokenFree(r) ==
    /\ th[r].pc = "send" /\ th[r].prov = "ibm"
    /\ token = "none" \/ ~fresh
    /\ token' = IF token = "none" THEN "none" ELSE "freed"
    /\ misused' = (misused \/ token = "freed")
    /\ Goto(r, "exchange")
    /\ shared' = (shared \/ ~Alone(r))
    /\ UNCHANGED <<config, initialized, out, fresh, expiries>>

\* The faulty variant leaves iam_token alone when the exchange fails.
ExchangeKeeps(r) ==
    /\ th[r].pc = "exchange"
    /\ \/ token' = "live" /\ Goto(r, "expiry")
       \/ token' = token /\ Goto(r, NoReply(r))
    /\ UNCHANGED <<config, initialized, out, fresh, expiries, shared, misused>>

\* ... and the next one is fetched (15 s at most), ...
Exchange(r) ==
    /\ th[r].pc = "exchange"
    /\ \/ token' = "live" /\ Goto(r, "expiry")
       \/ token' = "none" /\ Goto(r, NoReply(r))
    /\ UNCHANGED <<config, initialized, out, fresh, expiries, shared, misused>>

\* ... token_expiry is set ...
SetExpiry(r) ==
    /\ th[r].pc = "expiry"
    /\ fresh' = TRUE
    /\ Goto(r, "bearer")
    /\ UNCHANGED <<config, initialized, out, token, expiries, shared, misused>>

\* ... and the token is read into the header.
Bearer(r) ==
    /\ th[r].pc = "bearer"
    /\ misused' = (misused \/ token # "live")
    /\ Goto(r, "wait")
    /\ UNCHANGED <<config, initialized, out, token, fresh, expiries, shared>>

Expire ==
    /\ fresh /\ expiries < MaxExpiries
    /\ fresh' = FALSE
    /\ expiries' = expiries + 1
    /\ UNCHANGED <<config, initialized, th, out, token, shared, misused>>

-----------------------------------------------------------------------------
(* The agentic loop.                                                       *)

\* A reply without tool calls is the last; calls are recorded in the chat.
ReceiveMain(r) ==
    /\ th[r].pc = "wait" /\ th[r].use = "main"
    /\ \E reply \in Replies(r) :
        th' = IF reply.calls = <<>>
              THEN [th EXCEPT ![r].pc = "final", ![r].content = reply.content]
              ELSE [th EXCEPT ![r].pc = "tools", ![r].calls = reply.calls,
                        ![r].hist = Append(@, Msg("calls", Len(reply.calls),
                                                  reply.content = "text"))]
    /\ UNCHANGED <<config, initialized, out, tokenVars>>

Result(r) == Msg("result", Len(th[r].calls), TRUE)

\* The faulty variant passes over the call.
PlaceholderSkips(r) ==
    /\ th[r].pc = "tools" /\ th[r].calls # <<>>
    /\ Head(th[r].calls) \notin Providers
    /\ th' = [th EXCEPT ![r].calls = Tail(@)]
    /\ UNCHANGED <<config, initialized, out, tokenVars>>

\* The next call is not one for a sub-query: its result is a placeholder.
Placeholder(r) ==
    /\ th[r].pc = "tools" /\ th[r].calls # <<>>
    /\ Head(th[r].calls) \notin Providers
    /\ th' = [th EXCEPT ![r].calls = Tail(@), ![r].hist = Append(@, Result(r))]
    /\ UNCHANGED <<config, initialized, out, tokenVars>>

\* run_subquery: announced, then sent to the provider of the model's name.
StartSub(r) ==
    /\ th[r].pc = "tools" /\ th[r].calls # <<>>
    /\ Head(th[r].calls) \in Providers
    /\ th' = [th EXCEPT ![r].pc = "lookup", ![r].use = "sub", ![r].prov = Head(th[r].calls)]
    /\ Tell(r, "start")
    /\ UNCHANGED <<config, initialized, tokenVars>>

\* Whatever comes back, or a text that says nothing did, is the result.
ReceiveSub(r) ==
    /\ th[r].pc = "wait" /\ th[r].use = "sub"
    /\ Goto(r, "end_sub")
    /\ UNCHANGED <<config, initialized, out, tokenVars>>

\* The faulty variant tells the end of the last one only.
EndSubOnce(r) ==
    /\ th[r].pc = "end_sub"
    /\ th' = [th EXCEPT ![r].pc = "tools", ![r].use = "main", ![r].prov = th[r].id,
                        ![r].calls = Tail(@), ![r].hist = Append(@, Result(r))]
    /\ IF Len(th[r].calls) = 1 THEN Tell(r, "end") ELSE UNCHANGED out
    /\ UNCHANGED <<config, initialized, tokenVars>>

\* WORKER_END, and the result into the chat.
EndSub(r) ==
    /\ th[r].pc = "end_sub"
    /\ th' = [th EXCEPT ![r].pc = "tools", ![r].use = "main", ![r].prov = th[r].id,
                        ![r].calls = Tail(@), ![r].hist = Append(@, Result(r))]
    /\ Tell(r, "end")
    /\ UNCHANGED <<config, initialized, tokenVars>>

\* The faulty variant compares with <=.
NextRoundLate(r) ==
    /\ th[r].pc = "tools" /\ th[r].calls = <<>>
    /\ th' = IF th[r].iters <= MaxToolIters
             THEN [th EXCEPT ![r].pc = "send", ![r].iters = @ + 1]
             ELSE [th EXCEPT ![r].pc = "final"]
    /\ UNCHANGED <<config, initialized, out, tokenVars>>

\* The faulty variant counts a round more.
NextRoundEarly(r) ==
    /\ th[r].pc = "tools" /\ th[r].calls = <<>>
    /\ th' = IF th[r].iters + 1 < MaxToolIters
             THEN [th EXCEPT ![r].pc = "send", ![r].iters = @ + 1]
             ELSE [th EXCEPT ![r].pc = "final"]
    /\ UNCHANGED <<config, initialized, out, tokenVars>>

\* while (iters++ < MAX_TOOL_ITERS)
NextRound(r) ==
    /\ th[r].pc = "tools" /\ th[r].calls = <<>>
    /\ th' = IF th[r].iters < MaxToolIters
             THEN [th EXCEPT ![r].pc = "send", ![r].iters = @ + 1]
             ELSE [th EXCEPT ![r].pc = "final"]
    /\ UNCHANGED <<config, initialized, out, tokenVars>>

\* The faulty variant has nothing to send when there is no content.
SendFinalContent(r) ==
    /\ th[r].pc = "final"
    /\ IF th[r].content = "none" THEN UNCHANGED out ELSE Tell(r, "final")
    /\ IF th[r].first /\ th[r].content = "text"
       THEN th' = [th EXCEPT ![r] = [Idle EXCEPT !.pc = "lookup", !.use = "name", !.id = th[r].id]]
       ELSE Finish(r)
    /\ UNCHANGED <<config, initialized, tokenVars>>

\* The reply is sent, empty when there is none; the first turn of a session
\* that got a text goes on to name it, with xAI.
SendFinal(r) ==
    /\ th[r].pc = "final"
    /\ Tell(r, "final")
    /\ IF th[r].first /\ th[r].content = "text"
       THEN th' = [th EXCEPT ![r] = [Idle EXCEPT !.pc = "lookup", !.use = "name", !.id = th[r].id]]
       ELSE Finish(r)
    /\ UNCHANGED <<config, initialized, tokenVars>>

\* A name that is not empty when blanks are trimmed is sent.
ReceiveName(r) ==
    /\ th[r].pc = "wait" /\ th[r].use = "name"
    /\ Tell(r, "rename") \/ UNCHANGED out
    /\ Finish(r)
    /\ UNCHANGED <<config, initialized, tokenVars>>

AgentStep(r) ==
    \/ InitProvider(r) \/ HasProvider(r) \/ NoProvider(r)
    \/ Send(r) \/ TokenGood(r) \/ TokenFree(r) \/ Exchange(r) \/ SetExpiry(r) \/ Bearer(r)
    \/ ReceiveMain(r) \/ ReceiveSub(r) \/ ReceiveName(r)
    \/ Placeholder(r) \/ StartSub(r) \/ EndSub(r) \/ NextRound(r) \/ SendFinal(r)

\* main initialises xAI before it connects, and leaves the entry of a failed
\* one untried.
AgentInit ==
    /\ config \in Configs
    /\ initialized = [p \in Providers |-> IF p = "xai" /\ XaiKey THEN 1 ELSE 0]
    /\ th = [r \in Requests |-> Idle]
    /\ out = [r \in Requests |-> <<>>]
    /\ token = "none" /\ fresh = FALSE /\ expiries = 0
    /\ shared = FALSE /\ misused = FALSE

AgentNext ==
    \/ \E r \in Requests : \E ask \in Asking[r] : Accept(r, ask[1], ask[2])
    \/ \E r \in Requests : AgentStep(r)
    \/ Expire

AgentSpec == AgentInit /\ [][AgentNext]_agentVars

\* The scheduler runs every thread; every HTTP call has a time-out.
AgentFairness == \A r \in Requests : WF_agentVars(AgentStep(r))

-----------------------------------------------------------------------------
(* Properties.                                                             *)

Count(r, kind) == Cardinality({i \in DOMAIN out[r] : out[r][i] = kind})

\* In every request sent to a provider each message of the chat is there, and
\* the calls of a reply are followed by the result of each of them, in order,
\* before anything else: a service refuses a chat with an unanswered call
\* (backend.c:220, build_body of the providers).
CallsAnswered ==
    \A r \in Requests : th[r].pc = "wait" =>
        LET body == Body(r)
            chat == {i \in DOMAIN body : body[i].role # "system"}
        IN  /\ Cardinality(chat) = Len(Chat(r))
            /\ \E i \in chat : body[i].role = "user" /\ \A j \in chat : i <= j
            /\ \A i \in DOMAIN body : body[i].of.kind = "calls" =>
                /\ i + body[i].of.n <= Len(body)
                /\ \A k \in 1..body[i].of.n :
                    /\ body[i + k].role = "tool"
                    /\ body[i + k].of.n = body[i].of.n + 1 - k

\* What the TUI hears of a request: sub-queries one at a time, each closed
\* before the next and before the reply, one reply or error, and a name only
\* after it (run_subquery, and backend.c:254, 301).
ToldInOrder ==
    \A r \in Requests :
        /\ Count(r, "final") + Count(r, "error") <= 1
        /\ \A i \in DOMAIN out[r] :
            /\ out[r][i] = "start" => Count(r, "error") = 0
            /\ out[r][i] \in {"final", "error"} => (i > 1 => out[r][i - 1] = "end")
            /\ out[r][i] = "end" => i > 1 /\ out[r][i - 1] = "start"
            /\ out[r][i] = "start" => i = 1 \/ out[r][i - 1] = "end"
            /\ out[r][i] = "rename" => i > 1 /\ out[r][i - 1] = "final"

\* A request is given up for its tool calls only when MAX_TOOL_ITERS replies
\* in a row had some; an answer that came is passed on (backend.c:195).
Rounds(r) == Cardinality({i \in DOMAIN th[r].hist : th[r].hist[i].kind = "calls"})
GivesUpAtTheLimit ==
    \A r \in Requests :
        /\ Rounds(r) <= MaxToolIters
        /\ th[r].pc = "final" /\ th[r].hist[Len(th[r].hist)].kind = "result"
              /\ th[r].iters = Rounds(r) => Rounds(r) = MaxToolIters

\* What a provider needs, of what the code reads.
Needs == [xai       |-> {{"grok_settings"}},
          anthropic |-> {{"ANTHROPIC_API_KEY"}, {"anthropic_file"}},
          google    |-> {{"GEMINI_API_KEY"}, {"GOOGLE_API_KEY"}, {"gemini_file"}},
          ibm       |-> {{k, p} : k \in {"WATSONX_API_KEY", "watsonx_apiKey"},
                                  p \in {"WATSONX_PROJECT_ID", "watsonx_projectId"}}]
Usable(p) == \E S \in Needs[p] : S \subseteq config

\* A request is sent only with complete credentials, to the provider that was
\* asked for, or, when that one cannot be used, a sub-query to xAI; and it is
\* refused only when none of the credentials that its provider's code reads
\* are complete (those that README.md names are DocumentedKeySuffices's).
\* What a thread reads after the mutex is what an initialisation left
\* (backend.c:45, 65, 121).
RightProvider ==
    \A r \in Requests :
        /\ th[r].pc \in {"wait", "bearer"} => Usable(th[r].prov)
        /\ th[r].pc = "wait" /\ th[r].use = "sub" =>
              \/ th[r].prov = Head(th[r].calls)
              \/ th[r].prov = "xai" /\ ~Usable(Head(th[r].calls))
        /\ Count(r, "error") = 1 => ~Usable(th[r].id)
        /\ th[r].pc = "looked" => initialized[th[r].prov] # 0

\* "FreeCLI reads API keys from environment variables or dotfiles"
\* (README.md:151): a request is refused only when nothing that the table and
\* the format under it name (README.md:155-163) is there for its provider.
Documented ==
    [xai       |-> {{"XAI_API_KEY"}, {"grok_settings"}},
     anthropic |-> Needs.anthropic,
     google    |-> Needs.google,
     ibm       |-> {{k, p} : k \in {"WATSONX_API_KEY", "watsonx_api_key"},
                             p \in {"WATSONX_PROJECT_ID", "watsonx_project_id"}}]
DocumentedKeySuffices ==
    \A r \in Requests :
        Count(r, "error") = 1 => ~ \E S \in Documented[th[r].id] : S \subseteq config

\* As long as no two threads are at work on the token at once, it is freed
\* once and never read afterwards (provider_ibm.c:147); with two, it is.
TokenSafe == misused => shared

\* Every request is answered, with a reply or an error.
RequestAnswered ==
    \A r \in Requests : th[r].pc # "idle" ~> th[r].pc = "done" /\ Count(r, "final") + Count(r, "error") = 1
=============================================================================
