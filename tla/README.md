# FreeCLI: specification and proofs

FreeCLI is a terminal client for language models. This directory holds TLA+
specifications of its program logic, TLC configurations that check them on small
instances, and proofs that TLAPS checks. Every definition is translated from the
C source; `PROJECT.json` names, for each of them, the lines it stands for.

## The system

Two processes on one machine, joined by one TCP connection on the loopback
interface that carries framed messages with a 64-bit correlation id (`corr_id`):

- `freecli`, the TUI: one thread, one loop. It reads a key; when no key comes for
  100 ms it handles at most one message (`main`, `check_ipc` in `src/ui/main.c`).
- `freecli-backend`: a message loop (`src/backend/backend.c`) that starts one
  detached thread per request.

| Part | State | Operations | Works with |
|---|---|---|---|
| TUI loop, `ui/main.c` | sessions, in-flight table (32), prompt, focus | submit, list keys, y/n, message handlers | everything below |
| Sessions, `ui/session.c` | array of at most 32, active index, next id | new, remove, select | in-flight table holds *indexes* into it |
| Commands, `ui/commands.c` | – | `/new /delete /clear /rename /fs` … | sessions, persistence, worker requests |
| Persistence, `ui/persist.c` | `sessions.json`, `sessions/<id>.json` | save one, save all, delete, load | called after most commands and replies |
| Chat buffer, `core/chat.c` | messages of one session | add, remove last, free | TUI and backend |
| IPC, `core/ipc.c`, `net.h` | – | frame, encode, decode | both processes; all backend threads send on one socket |
| Chat requests, `backend/backend.c` | one thread per request, provider table | agentic loop, sub-queries, naming | providers (external), TUI |
| Dispatcher and approvals, `core/backend_worker.c` | worker registry, 8 approval slots | dispatch, request and notify an approval | fs worker, TUI prompt |
| Filesystem worker, `workers/fs_worker.c` | sandbox root | read, list, create, modify, delete | approvals |
| Providers, `providers/*` | credentials, IBM's token shared by all threads | init, send | external services |
| Pane, `core/chat.c`, `core/utf8.c` | scroll position | wrap, lay out, scroll | chat buffer |
| Input line, `ui/input.c` | buffer, cursor, history (32) | edit, recall | main loop, choice picker |
| Choice picker, `ui/main.c` | choices of one reply, index of its session | detect, highlight, accept, dismiss | replies, input line, sessions |
| Popup, `ui/overlay.c` | selection, scroll position | pick | `/provider`, `/model` |

What is hard here: threads that wait for a person; answers that cross a timeout;
two queues with several writers; session *indexes* kept while sessions are
removed; a chat whose last message is assumed to be a placeholder; files that are
truncated and refilled while the program may die; a path that is checked before a
person is asked and used afterwards; one socket with several senders, of which one
end does not block; a token that threads share without a lock. `PROJECT.json` lists these
hazards at their lines with the properties that would notice them going wrong.

What makes each part correct:

- approvals: nothing is done without a yes to *that* request; no answer is final
  for another one; slots come back; every request is closed;
- conversation: a reply reaches the session it was asked in; one turn at a time;
  no message disappears; the input never stays locked;
- persistence: ids stay distinct; what was saved is loaded; what was deleted is
  not; a crash costs at most the file being written;
- chat requests: every tool call has its result before the next round, every request
  one answer, every provider its credentials, and the shared token is not used after
  it was freed;
- files: nothing outside the sandbox; what is done is what was approved; success
  means done in whole;
- socket: what arrives is what was sent, whole and in order;
- terminal: no character of a text is lost in wrapping, no message in the layout;
  choices are those of the reply and go to its session; the selection is visible.

## Modules

| Module | What it is |
|---|---|
| `ApprovalGate` | abstract: what the approval flow promises (requested, answered once, performed or denied) |
| `ApprovalBus` | the approval flow: dispatch threads, approval slots, both queues, prompt |
| `ApprovalBusProofs` | inductive invariant, safety theorems, refinement of `ApprovalGate` |
| `ApprovalAttention` | `ApprovalBus` with a user who reads before pressing a key |
| `Conversation` | sessions, chats, in-flight table, message handlers, the backend's request threads |
| `ConversationProofs` | inductive invariant: routing, one turn at a time, placeholders, kept histories |
| `SessionStore` | sessions in memory and on disk, saves as single writes, crashes, restarts |
| `SessionStoreProofs` | inductive invariant: ids, ownership, deletions, kept messages |
| `AgentLoop` | a chat request in the backend: agentic loop, sub-queries, naming, providers, token |
| `AgentLoopProofs` | inductive invariant: credentials, token, order of what is told, limit, results of calls |
| `FsWorker` | the filesystem worker on a file system with links that others edit too; implements `ApprovalGate` |
| `BackendProofs` | `FsWorker`'s inductive invariant: sandbox, checks that stand, truthful replies; the refinement; types of both backend modules together |
| `Framing` | one direction of the connection, in parts of frames |
| `FramingProofs` | inductive invariant: frames arrive whole and in order |
| `ChatView` | line breaking, the layout of the conversation's pane, and where curses draws it |
| `ChoiceList` | the choices found in a reply (an algorithm, no state) |
| `Prompt` | keys: input line, history, session list, choice picker; extends `ChoiceList` |
| `PromptProofs` | what `detect_choices` returns for any reply; inductive invariant of the keys |
| `Overlay` | the popup |
| `TerminalProofs` | what line breaking and the pane's layout compute for any text; the popup's selection is visible; the terminal's modules together |
| `MC...` | instances for TLC, and statements of the source that do not hold |

**ApprovalBus.** An element of `Ops` is a request and the thread that serves it.
`pc` is the place in `op_create_file`/`op_modify_file`/`op_delete_file` and, inside
it, in `bw_request_approval`; `in_use`, `slot_corr`, `decided` are the fields of
`approvals[]`; `signalled` are the threads `pthread_cond_signal` has woken. A block
under a mutex is one action: `ClaimSlot`, `Notify`, `Decided`/`Undecided`,
`ReleaseSlot`. The condition variable may wake without a reason (`Wake`), and
`TimeOut` overwrites the decision as the code does. `toBackend`/`toTui` are the two
directions of the connection; result and end are two sends, and other threads send
in between. `bw_notify_approval` and the prompt handler are `Notify` and
`ShowPrompt`, the y and n keys `PressKey`.

**Conversation.** The TUI state is that of `main.c`; the in-flight table keeps the
slot order of the C array because `inflight_remove` frees the *first* match. Indexes
and slots count from 1. A chat is a sequence of messages, each a kind and a request;
texts are left out. `upset` is a history variable: it remembers that a session was
deleted while a request was under way (`deleted`), that something was written to a
chat that waits for its reply (`noted`), or that an entry did not fit the table
(`overflow`). The code does not withstand these, so the properties say what holds
without them, each naming only those it needs; `conversation_delete` shows what a
deletion does. A job's `pc` is the place of its backend thread. A thread that serves
a mutating request waits for an approval somewhere between `run` and `end`, which
is `ApprovalBus`'s matter.

**SessionStore.** A save is the list `todo` of writes; `Open` truncates, `WriteFile`
and `WriteIndex` fill, `WriteFails` is a file that does not open, or is filled in
part, while the program goes on (`write_file` looks at neither), `Crash` may happen
between any two of them. `hurt` names the files a write of which was cut or
failed, and 0, the index, also when it did not list a session that was saved. After
`Quit` the chats are freed memory: what is written is then a choice between the
chat and garbage.

**AgentLoop.** `th[r]` is the thread of request `r`: `pc` is its place, `use` says
whether the provider call is the turn itself, a sub-query or the naming, `hist` is
the local `ChatBuffer` (messages by their kind, not their text), `calls` the tool
calls of the reply that are still to be carried out. `out[r]` is what the TUI is
sent. `get_provider` is two actions, because the flag is read again after the mutex.
The `build_body` functions are the operators `XaiBody` … `GoogleBody`, the reply
parsers the sets of replies they can return. `ensure_token` and the use of the token
are five actions (`TokenGood`, `TokenFree`, `Exchange`, `SetExpiry`, `Bearer`), since
no lock is held; `iam_token` is `"freed"` between `free` and the assignment. `shared`
and `misused` are history: two threads did get in each other's way, and a token was
freed twice or read after its end. The code allows that; `TokenSafe` says that it
happens in no other way. `Credentials` has what the
repository's README documents beside what the code reads: `RightProvider` is about
the code's own, `backend_keys` shows a documented key that is ignored.

**FsWorker.** `tree` is the file system, `op[o]` the thread of a request, `RealPath`
resolves component by component and follows links, `fs_resolve` adds the two ways
(existing file, file to be created) and the comparison with the root, which is by
characters: `Prolongs` names the pairs of names that begin alike. `Place` is where
`stat`, `fopen` and `opendir` come to at that moment, `Spot` what `remove` takes away.
A link leads anywhere, to something or to nothing (`LeadsTo`; only chains of links are
left out), and `FsEdit` puts a file, a directory or a link at any place in the sandbox
or takes away what is there. The approval is the pair `FsAnswer`/`FsApproval`; inside
it are `ApprovalBus`'s steps. `FsOpen` and `FsWrite` are `fopen` and the rest of
`write_file_contents`. The text written is the request's or garbage, as the JSON it
points into was freed. `doubts` is history: why a thread's path may not be the one it
checked any more (another request or a user changed something on it, or its last name
was a link to begin with). `linked` says that the open file still has its name, `lost`
that `fclose` lost the text unnoticed. The properties that hold say what holds of paths
without doubts; what happens otherwise breaks what the source promises
(`OutsideUntouched`, `CreatesOnly`, `WrittenAsAsked`, see below). `FsGateSpec` maps the worker to
`ApprovalGate`.

**Framing.** A frame is a sequence of parts, the first being the length field;
`sending` is the rest of the buffer in `net_send_all`, one `SendSome` a call of
`send`, `RecvLength`/`RecvBody` the calls of `recv`. `blocks` tells the two directions
apart: towards the TUI the receiver does not block, towards the backend the sender.
`torn` remembers that a frame was cut or two were mixed; the code permits both.

**ChatView.** A text is a sequence over `Character`: a narrow one, a wide one, a blank,
a tab and a newline. `wrap_line_end`, `count_rows` and `After`/`Rendered`, which are
the loop of `chat_render`, count as `utf8_cwidth` does. The drawing is apart from the
counting: `Advance` is what curses does with a character and the cursor (a tab goes to
the next multiple of eight, what does not fit goes to the next row), `LineStart` where
`render_wrapped` begins a line, which is where the cursor was left when `wmove` fails
in a pane no wider than the prefix, and `RowsOf` the rows a message is drawn on.
`PaneFaithful` compares the two where they should agree (`Plain`); elsewhere they do
not (`DrawnAsCounted`, see below). `Hung` is the state in
which `count_rows` does not return; nothing happens any more then.

**ChoiceList, Prompt.** A reply is a sequence of lines by what `detect_choices` sees
in them. `Prompt` has the variables of `InputLine`, the session list, and
`pending_choices` with the *index* it keeps; `of` and `stale` in it are history: which
session offered the choices, and whether a deletion has since moved that index. `lost`
remembers a line that was neither sent nor recorded. What becomes of a request is left
to `Conversation`: here a turn is under way at an index or not. `pick` is the last
choice that was accepted, and whether it could be sent.

**Overlay.** The local variables of `overlay_pick` between two reads of a key. The
screen keeps its height while the popup is open.

**MCBackend, MCTerminal.** The two backend modules, and the terminal's, share no
variable within their run. A variable `part` chooses one of them for a whole
behaviour: interleaving them would multiply states and show nothing, because no
property relates them.

## Runs

| Run | Instance | Shows |
|---|---|---|
| `approval_bus` | 3 requests, 2 slots, timeout | the safety of the flow with a full table, late answers and reused slots |
| `approval_live` | 2 requests, 1 slot | every request closes; no lost wake-up; the bus implements the gate with its fairness |
| `approval_attention` | 2 requests, 2 slots | **violated**: the y for one prompt performs another request |
| `conversation` | 2 sessions, 2 entries, 2 requests, reads, 1 counted command | routing, one turn at a time, placeholders, history, indexes |
| `conversation_live` | 1 session, 2 entries, 2 requests of any kind, 1 sub-query | entries of turns and mutating requests leave the table |
| `conversation_delete` | 2 sessions, 2 requests | **violated**: a reply lands in another session after a deletion |
| `conversation_close` | 2 entries, 2 requests, reads | **violated**: a session stays locked after a file read |
| `store` | 2 ids, 2 messages, 3 starts | ids, deletions and saved messages through crashes, failed writes, restarts |
| `store_quit` | the same | **violated**: quitting writes freed memory over the chats |
| `backend` | 2 chat requests over 4 providers, 2 rounds, 2 calls a reply, 1 expiry; 2 file requests, 4 places for links, 1 edit by hand | answers, tool results, credentials, token; sandbox, checks that stand, whole writes, refinement of the gate |
| `backend_keys` | the same | **violated**: a documented key is there and the request is refused |
| `terminal` | 2 senders, a socket of 3 parts; 4 panes; two sets of bounds for keys; lists of at most 4 lines; 4 options, 4 screen heights | whole frames, wrapping, layout and drawing, choices, kept lines, visible selection |

More that the source says of itself and the code does not keep. Each is stated in a
module, and TLC finds it violated when it stands alone in place of the properties of the
run's cfg. They are no runs of their own; what the passing runs check beside them says
what does hold.

| Statement | The source says | The code | Module, run |
|---|---|---|---|
| `OutsideUntouched` | "guaranteed to be inside the sandbox root" (`fs_worker.c:34`), "scoped" (`fs_worker.h:7`) | only the directory of a new file is resolved (`fs_worker.c:85`): where its name is a dangling link, `stat` fails and `fopen` (`:148`) creates the file the link names; so does a name that becomes a link after it was resolved | `FsWorker`, `backend` |
| `WrittenAsAsked` | "Write content to path" (`fs_worker.c:146`), `{"path","content"}` and `{"status":"ok"}` (`fs_worker.h:19-24`) | the content is in the JSON that is deleted first (`:312`, `:379`); whatever is in that memory is written, and reported ok | `FsWorker`, `backend` |
| `CreatesOnly` | "Check the file does not already exist" (`fs_worker.c:319`) | a file that appears during the approval is truncated (`:343`) | `FsWorker`, `backend` |
| `TokenEnsured` | "Ensure we have a valid IAM token; refresh if expired." (`provider_ibm.c:143`) | a second request frees the token again, or sends it, while the first exchanges it (`:147`) | `MCBackend`, `backend` |
| `DrawnAsCounted` | "Count display rows for text without rendering" (`utf8.h:22`), "How many rows does this message occupy?" (`chat.c:151`) | in a pane no wider than the prefix the prefix wraps and `wmove` fails (`chat.c:119`, `:162`), and in any pane a tab counts as one column (`utf8.c:16`): more rows are drawn than counted, over the message below | `ChatView`, `terminal` |
| `WireFormat` | "[u32 frame_body_len][u32 type][u64 corr_id][payload...]" (`ipc.h:11`) | two threads' frames mix when the kernel takes them in parts (`ipc.c:17`); the receiver hands over a message nobody sent | `MCTerminal`, `terminal` |
| `ReliableRecv` | "blocks until all bytes received" (`net.h:72`) | the TUI's socket does not block: half a frame is taken for a lost connection (`net.h:77`) | `MCTerminal`, `terminal` |
| `ChosenIsSent` | "Chosen text becomes the next user message" (`main.c:734`) | the choices are freed (`:727`) before `submit_text` looks whether it may send (`:949`) | `MCTerminal`, `terminal` |
| `PlaceholderRemoved` | "remove "..." placeholder" (`main.c:825`, `:859`) | the last message is removed, whatever it is | `MCConversation`, `conversation_delete` |
| `SavedIsListed` | "Save the index file + one session's message file." (`persist.h:25`) | only the session's file is written (`persist.c:122`); the first session is in no index until something else saves all | `MCSessionStore`, `store` |

What the models of this code make visible beside the properties: a message taller
than the pane is not shown at all, not even in part; PgUp scrolls to newer messages
and PgDn to older ones; a pane so narrow that a text has one column left hangs the
TUI at the first wide character; a pane no wider than "Assistant: " (a terminal under
62 columns) draws a reply over the message below; a blank that does not fit begins the
next line; choices of a reply are dropped when another reply's are still offered; a digit
typed in the middle of a line picks a choice; after 32 lines the history records nothing;
`remove()` takes an empty directory, the sandbox itself included; a provider that
failed once is not tried again until a restart, and run_subquery picks a provider by
the model's name although its comment says that it tries each in order.

Bounds. Three requests on two slots is the least that has a full table, a slot
reused by a second owner and a late answer at the same time; one slot suffices for
the liveness of waiting and of a full table. Two in-flight entries suffice for a
free slot below a used one, which is what the wrong close-out needs, and for a full
table. Two sessions suffice for every index shift `sm_remove` makes with a session
above or below; with two ids a restart from an empty index reuses an id. Three
starts allow two crashes with something loaded after each. `MaxCmds` counts the
commands that may be repeated without end. In `backend`, two
requests are what it takes to meet at the token, one expiry separates a token that is
there from one that is good, two rounds of two calls have a call before and after
each kind of result and a last round that still asks; of the two stores of credentials
one has what is documented and not read beside those of other providers. The sandbox has
a neighbour whose name begins with its own, a link to it, a link to nothing in it, a
directory with a large file, and a name that does not exist yet; the user may replace the
last by a link to a file outside and the directory by one to the neighbour. One edit by
hand falls into each gap between check and use.
In `terminal`, a frame of 4 parts does not fit a socket of 3, one of 2 does,
and two frames a sender give an order to lose; texts have up to 4 characters of each
kind in panes whose text columns are 1, 3, 8, 11 (user) and 1, 1, 2, 5 (reply) wide, so
every break, and the endless one, occurs, panes narrower than a prefix and wider ones;
a screen of 8 lines leaves the popup less than one row; keys are checked once with one session,
lines of 2 characters and a history of 2, and once with two sessions, three ids and
shorter lines; a list of 4 lines over 13 kinds has room for a choice, its
continuation, a line that ends it and a new start. The systems stop when their bounds are
used up, so deadlock is not checked; the liveness properties cover waiting.

Fairness. `Scheduling` in `ApprovalBus`: the TUI and the backend's loop take
messages that are there (100 ms and 20 ms polls), threads that are not waiting run,
a signalled waiter gets the mutex. For the TUI this assumes that the user pauses:
keys that never stop arriving would keep `getch` from timing out. `Deadline` is
strong fairness of the timeout: the deadline is absolute and computed once, so a
thread that is woken again and again still passes it. It is stated apart, as a
hypothesis, because `AnswerReleasesWaiter` must hold without it, and because the
Windows branch of `bw_request_approval` has no timeout. In `Conversation` the
threads of the backend are weakly fair: providers are external services and they
answer or fail in the end, because every HTTP call has a timeout (15, 30 or 60 s). A
thread is assumed for every chat request (`pthread_create` is not checked there).
`AgentFairness` is weak fairness of every request's thread, from the same timeouts:
`RequestAnswered` needs no more, since the token is not waited for.

## Proofs

Every theorem holds for any value of the constants that the module's `ASSUME` admits.
44 theorems are listed in `PROJECT.json`; the lemmas are in the modules.

| Module | About | Theorems |
|---|---|---|
| `ApprovalBusProofs` | any requests and number of slots, with or without the timeout | `TypeCorrect`, `Authorised` (`PerformedOnlyIfApproved`), `Refused` (`NoMeansNo`), `SlotsPaired` (`SlotsReturned`), `DecisionsOwned` (`DecisionIsOwners`), `ToldTheTruth` (`ReportTruthful`), `ImplementsGate` |
| `AgentLoopProofs` | any requests, providers, credentials and limits | `AgentTypeCorrect`, `TokenUse` (`TokenSafe`), `ProviderUse` (`RightProvider`), `TellingInOrder` (`ToldInOrder`), `GivingUp` (`GivesUpAtTheLimit`), `Answered` (`CallsAnswered`) |
| `BackendProofs` | any requests, paths and edits; any tree and links, but for chains of links | `FsTypeCorrect`, `Confined` (`InsideSandbox`), `CheckKept` (`CheckStands`), `SuccessIsWhole` (`OkMeansWhole`), `WorkerImplementsGate` (`FsGateSpec`), `BackendTypeCorrect` (`BackendTypeOK`) |
| `SessionStoreProofs` | any sessions, ids, messages and starts | `StoreTypeCorrect`, `IdsStayDistinct`, `MessagesOwned`, `TakenAwayForGood`, `NothingLost` (the run's four invariants) |
| `ConversationProofs` | any sessions, table size, requests, sub-queries, commands | `ConversationTypeCorrect`, `SelectionStays`, `OneTurn`, `Placeholder`, `RepliesHome`, `HistoryStays` |
| `PromptProofs` | any replies, keys and bounds | `ListRead`, `PromptTypeCorrect`, `LineRecalled` (`TextKept`), `ChoiceGoesHome` (`ChoiceInItsSession`) |
| `FramingProofs` | any threads, frame lengths, socket capacity | `WireTypeCorrect`, `FramesArriveWhole` (`FramesIntact`) |
| `TerminalProofs` | any texts over `Character`, prefixes, pane sizes, number of messages; any options and screen height | `ViewTypeCorrect`, `TextBroken` (`WrapFaithful`), `PaneFilled` (`PaneFaithful`), `OverlayTypeCorrect`, `SelectionVisible` (`SelInView`), `TermTypeCorrect` (`TermTypeOK`), `TermListRead` (`ListFaithful`) |

Hardly any of the properties is inductive by itself. The invariants are conjunctions of
layers, each kept by a step given the layers before it; the comment at the head of
each module lists them. What they add to the properties, and why it is needed:

- **ApprovalBus.** That a file is touched only after a yes needs that the thread's
  verdict came from its own slot, that the slot's decision was made for its owner, and
  that the answer in the queue was the user's. `QueueInv`: a queued request is the only
  one of its name and has no thread yet. `SlotInv`: used slots and threads inside
  `bw_request_approval` are paired one to one, so an answer finds the slot of its own
  request or none. `PromptInv`: a request has at most one prompt and is answered at most
  once, hence never both yes and no. `AuthInv`: every yes on its way goes back to the
  user. What the user reads (`ToldTheTruth`) follows once results and ends are tied to
  the thread's place and ordered in the queue.
- **AgentLoop.** `CredsInv` ties the provider table to the credentials, and says that a
  thread past the lookup has a provider that works — although other threads write the
  table between its two reads of the flag. `TokenInv` is mutual exclusion at IBM's
  token, *until* two threads meet there; only the thread that exchanges it sees it
  dangling. `ToldInv` and `RoundsInv` say what goes with each place of a thread.
  `HistInv` is the shape of a chat at every place: calls have their results right
  behind them, those of the last reply as far as they were carried out. That the
  other providers, whose bodies pass over such messages, lose nothing rests on its
  last part: only the chats of xAI ever hold calls.
- **FsWorker.** `PathInv`: a path without doubts is inside the sandbox and leads through
  no link; this rests on a lemma about `RealPath` (what it returns is there, behind
  directories only, or it failed) and on every change to the path being a doubt.
  `OpenInv` ties an open file to its name. `StandInv` needs `TreeInv`: a directory is in
  a directory, so what other requests do to other paths cannot remove the one that was
  checked. The refinement to `ApprovalGate` follows from `FsPhaseInv` step by step.
- **SessionStore.** `TodoInv`: what is still to be written belongs to the sessions, in
  order. `GoneInv`: a message that is gone is in no file, one that is leaving is in no
  file that will not be written over. `KeptInv`: every whole file has its session in
  memory, or in the index if the program is down — at every single point where it may
  die. The hypotheses about `hurt` are exactly those of the properties.
- **Conversation.** `MsgsInv` and `TableInv`: a turn that was not answered has one
  entry in the table, and its answer is to be sent, on its way, or lost with the
  connection. `DestInv`: every index that travels with a request, or waits in its
  entry, is that of its session, until a deletion. `TalkInv` derives the rest: a chat
  whose turn is under way ends with its placeholder or was cleared.
- **Framing.** What was read last and what is in the socket are one stream. `Lined`
  says how its parts follow each other, `Ended` that only its last frame may be
  incomplete and only that frame's sender is in the middle of one, `Taken` what the
  receiver holds, `Numbered` that each frame begins after those before it. The part
  that was read last is gone from the state, so the invariant says that there is one.
- **Prompt.** `OfferInv`: the index that is kept with the choices is still that of
  the session, until a deletion moves it (`stale`). `LineInv` keeps the recorded lines
  within the length of the buffer they are recalled into.
- **ChatView.** The messages are only types to the invariant; everything is in what is
  computed from them. `LineIs` says what `wrap_line_end` returns from any character on:
  the place the columns ran out, moved back to the last blank, which is behind the
  first character, hence every line but one before a wide character in a single column
  takes something. `WrapIs` follows by induction from the text's end (a line is in
  front of the lines from where it ends), `AfterIs` by induction from the newest
  message: each begins as many rows above the one below it as it has lines, the newest
  above the last row of the pane. `CursorsAre` brings the drawing in: without tabs, the
  cursor of curses is as far behind the prefix as the columns counted so far, so
  `PlainDrawn` puts every character of a line on the line's row. `PaneFaithful` is then
  arithmetic about rows.
- **Overlay.** Types and visibility hold each other up: the window never ends below
  the list because it only moves to follow the selection.

Induction over data. The library's induction theorems take a predicate, which the
provers here cannot instantiate. Where a recursion is over numbers, induction is stated
as a fact about *sets* (`Induction` and `Recursion` in `PromptProofs`, from the theorem
that finite sets of numbers are well-founded under inclusion). So what
`detect_choices` finds is proved for replies of any length (`ListRead`, whose instance
is the run's `ListFaithful`), and `Downwards` in `TerminalProofs` makes of it what the
line breaker and the layout need: a function that is computed from the last place
down, each value from that of a *later* place, exists. `WalkExists` in `BackendProofs`
does the same for the fold in `RealPath`, with the greatest and the least of a set of
numbers, and `TurnsAll` in `AgentLoopProofs` shows by a least counterexample that
`Turns` returns a chat without calls as it is.

Composition. The modules of `MCBackend` and of `MCTerminal` share no variable within
their run. `BackendParts` and `TermParts` show that a behaviour of the run is one of
each module (a step of another module is a stutter), so every theorem about a module
holds of the run, and the types of all of them together (`BackendTypeOK`, `TermTypeOK`)
are theorems about what TLC checks. Every invariant of a passing run is stated by a
theorem now.

Model-checked only are the liveness properties and the fairness part of the refinement
(`EveryRequestCloses`, `AnswerReleasesWaiter`, `GateFairSpec`, `EntriesGo`,
`RequestAnswered`): temporal reasoning with `ENABLED` is beyond this prover.

## Not modelled

- `cJSON` (vendored); the tests; drawing (`draw_*`, window geometry, colours); the
  pane with the reasoning (`chat_render_decisions`); log output.
- Texts of messages, names and files beyond what a property tells apart; UTF-8 by its
  bytes; lines over 4095 bytes, which the pane cuts; paths over `FS_PATH_MAX`;
  links that lead through other links.
- The encodings of payloads field by field: the modules read the fields the code
  reads.
- Windows branches, except that the wait for an approval has no timeout there.
- `pthread_create` failing, allocation failing, and what threads do while the backend
  shuts down (`backend.c:441`).
- y and n while an approval is asked for are taken before any other key; that is
  `ApprovalBus`'s, and left out of `Prompt`.
- Control characters in a text other than tab and newline, and bytes that are not UTF-8.
- A terminal that is resized while the popup is open (`overlay.c:91`).
- A provider id the backend does not know, and a chat request it cannot decode
  (`backend.c:419`): the TUI's ids are those of `provider_registry`, which are the
  backend's, and its payloads are those of `ipc_encode_req_send`.
- `MSG_REQ_CANCEL`, which `ipc.h` declares and nothing sends or handles.

## Plan

What is left: `Shutdown`, the backend's exit with threads that still run
(`backend.c:441`), beside `ApprovalBus` and `AgentLoop`, whose threads it would share.
