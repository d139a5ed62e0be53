---------------------------- MODULE SessionStore ----------------------------
(***************************************************************************)
(* The sessions of the TUI and their files: src/ui/session.c, persist.c    *)
(* and the places of main.c and commands.c that save, load and quit.  A    *)
(* save is a list of writes; write_file truncates a file and then fills    *)
(* it, and the program may die between any two of these steps.             *)
(*                                                                         *)
(* A message is a number and a chat a set of them.  Names and placeholders *)
(* are left out: a change of name is a save of everything.                 *)
(***************************************************************************)
EXTENDS Naturals, Sequences, SequencesExt

CONSTANTS
    MaxSessions,   \* MAX_SESSIONS (32 in the code)
    MaxIds,        \* bound: session ids
    MaxMsgs,       \* bound: messages
    MaxRuns        \* bound: starts of the program

ASSUME BoundsAssumption == {MaxSessions, MaxIds, MaxMsgs, MaxRuns} \subseteq Nat \ {0}

VARIABLES
    mode,       \* "down", "up", or "quitting": the chats are freed, the saves to come
    sessions, next_id,
    todo,       \* writes the program still makes before it reads a key
    opened,     \* the file of the first of them is open, and empty
    index,      \* sessions.json
    file,       \* sessions/<id>.json
    \* History.
    runs,
    said,       \* for each message, the session it was said in
    leaving,    \* messages the user is clearing or deleting
    gone,       \* messages the user cleared or deleted
    kept,       \* messages that were in the files a restart would load
    hurt,       \* files a write of which was interrupted or failed, 0 for the index,
                \* also when it failed to list a saved session
    atQuit      \* the sessions the user quit from, <<>> after any other end
                \* and after a write that failed

memVars  == <<sessions, next_id>>
diskVars == <<index, file>>
vars == <<mode, memVars, todo, opened, diskVars,
          runs, said, leaving, gone, kept, hurt, atQuit>>

Ids == 1..MaxIds
Garbage == 0
Chats == SUBSET (0..MaxMsgs)
State == {"none", "torn", "whole"}
Session == [id : Ids, chat : Chats]
Item == [do : {"index", "file", "remove"}, id : 0..MaxIds]

TypeOK ==
    /\ mode \in {"down", "up", "quitting"}
    /\ sessions \in Seq(Session) /\ Len(sessions) <= MaxSessions
    /\ mode = "up" => sessions # <<>>
    /\ next_id \in 1..(MaxIds + 1)
    /\ todo \in Seq(Item)
    /\ opened \in BOOLEAN
    /\ index \in [state : State, next_id : 1..(MaxIds + 1), ids : Seq(Ids)]
    /\ file \in [Ids -> [state : State, chat : Chats]]
    /\ runs \in 0..MaxRuns
    /\ said \in Seq(Ids) /\ Len(said) <= MaxMsgs
    /\ {leaving, gone, kept} \subseteq Chats
    /\ hurt \subseteq 0..MaxIds
    /\ atQuit \in Seq(Session)

Init ==
    /\ mode = "down"
    /\ sessions = <<>>
    /\ next_id = 1
    /\ todo = <<>>
    /\ opened = FALSE
    /\ index = [state |-> "none", next_id |-> 1, ids |-> <<>>]
    /\ file = [s \in Ids |-> [state |-> "none", chat |-> {}]]
    /\ runs = 0
    /\ said = <<>>
    /\ leaving = {}
    /\ gone = {}
    /\ kept = {}
    /\ hurt = {}
    /\ atQuit = <<>>

Count == Len(sessions)
IdsOf(ss) == [k \in 1..Len(ss) |-> ss[k].id]
Shown == UNION {sessions[k].chat : k \in 1..Count}

-----------------------------------------------------------------------------
(* Saves.                                                                  *)

Write(do, id) == [do |-> do, id |-> id]

\* persist_save_session; the faulty variant saves nothing.
NotSaved(ss, k) == <<>>
SaveSession(ss, k) == <<Write("file", ss[k].id)>>

\* persist_save_all: the index first, then every session.
SaveAll(ss) == <<Write("index", 0)>> \o [k \in 1..Len(ss) |-> Write("file", ss[k].id)]

Idle == mode = "up" /\ todo = <<>>

\* A command that changes the sessions in memory and saves.
Change(ss, next, writes, lost) ==
    /\ Idle
    /\ sessions' = ss
    /\ next_id' = next
    /\ todo' = writes
    /\ leaving' = IF writes = <<>> THEN {} ELSE lost \ {Garbage}
    /\ gone' = IF writes = <<>> THEN gone \cup (lost \ {Garbage}) ELSE gone
    /\ UNCHANGED <<mode, opened, diskVars, runs, kept, hurt, atQuit>>

WithChat(k, chat) == [sessions EXCEPT ![k].chat = chat]

\* A message that is not saved yet: the user's, an error, a notice.
Say(k) ==
    /\ Len(said) < MaxMsgs
    /\ Change(WithChat(k, sessions[k].chat \cup {Len(said) + 1}), next_id, <<>>, {})
    /\ said' = Append(said, sessions[k].id)

\* A reply is saved at once.
Reply(k) ==
    /\ Len(said) < MaxMsgs
    /\ Change(WithChat(k, sessions[k].chat \cup {Len(said) + 1}), next_id,
              SaveSession(sessions, k), {})
    /\ said' = Append(said, sessions[k].id)

\* /clear
Clear(k) ==
    /\ sessions[k].chat # {}
    /\ Change(WithChat(k, {}), next_id, SaveSession(sessions, k), sessions[k].chat)
    /\ UNCHANGED said

\* /rename and the topic a first reply brings.
Rename == Change(sessions, next_id, SaveAll(sessions), {}) /\ UNCHANGED said

\* /new and the n key
New ==
    /\ Count < MaxSessions
    /\ next_id \in Ids
    /\ LET ss == Append(sessions, [id |-> next_id, chat |-> {}])
       IN  Change(ss, next_id + 1, SaveAll(ss), {})
    /\ UNCHANGED said

\* del_id; the faulty variant reads it after sm_remove moved the sessions.
IdAfterwards(k) == sessions[IF k < Count THEN k + 1 ELSE k].id
DeletedId(k) == sessions[k].id

\* What becomes of the list a session was taken from; the faulty variant
\* leaves it empty.
NotReplaced(rest) == rest
Replaced(rest) == IF rest = <<>> THEN <<[id |-> next_id, chat |-> {}]>> ELSE rest

\* do_delete_session: the file goes first, a last session is replaced.
Delete(k) ==
    LET ss == Replaced(RemoveAt(sessions, k))
    IN  /\ Count = 1 => next_id \in Ids
        /\ Change(ss, IF Count = 1 THEN next_id + 1 ELSE next_id,
                  <<Write("remove", DeletedId(k))>> \o SaveAll(ss), sessions[k].chat)
        /\ UNCHANGED said

\* main() ends: chat_free on every session, then persist_save_all.
Quit ==
    /\ Idle
    /\ mode' = "quitting"
    /\ todo' = SaveAll(sessions)
    /\ atQuit' = sessions
    /\ UNCHANGED <<memVars, opened, diskVars, runs, said, leaving, gone, kept, hurt>>

-----------------------------------------------------------------------------
(* The writes.                                                             *)

\* What a restart would load.
Loadable(ix, fs) ==
    IF ix.state # "whole" THEN {}
    ELSE UNION {fs[s].chat : s \in {t \in ToSet(ix.ids) : fs[t].state = "whole"}}

\* The process is gone, and its memory.
Dead == mode' = "down" /\ sessions' = <<>> /\ next_id' = 1

\* The first write is over and leaves the files as ix and fs; after the last
\* one the command is over, or the program.
Finish(ix, fs) ==
    /\ index' = ix
    /\ file' = fs
    /\ opened' = FALSE
    /\ todo' = Tail(todo)
    /\ leaving' = IF Tail(todo) = <<>> THEN {} ELSE leaving
    /\ gone' = IF Tail(todo) = <<>> THEN gone \cup leaving ELSE gone
    /\ IF mode = "quitting" /\ Tail(todo) = <<>> THEN Dead ELSE UNCHANGED <<mode, memVars>>
    /\ kept' = kept \cup (Loadable(ix, fs) \ {Garbage})

Doing(do) == todo # <<>> /\ Head(todo).do = do

\* fopen(path, "w") truncates the file.
Open ==
    /\ todo # <<>> /\ ~Doing("remove") /\ ~opened
    /\ opened' = TRUE
    /\ index' = IF Doing("index") THEN [index EXCEPT !.state = "torn"] ELSE index
    /\ file' = IF Doing("file") THEN [file EXCEPT ![Head(todo).id].state = "torn"] ELSE file
    /\ UNCHANGED <<mode, memVars, todo, runs, said, leaving, gone, kept, hurt, atQuit>>

\* fopen fails, or what was open is left cut because fputs or fclose come
\* short, which write_file does not look at; nobody is told.
WriteFails ==
    /\ todo # <<>> /\ ~Doing("remove")
    /\ hurt' = hurt \cup {Head(todo).id}
    /\ atQuit' = <<>>
    /\ Finish(index, file)
    /\ UNCHANGED <<runs, said>>

WriteIndex ==
    /\ Doing("index") /\ opened
    /\ Finish([state |-> "whole", next_id |-> next_id, ids |-> IdsOf(sessions)], file)
    /\ UNCHANGED <<runs, said, hurt, atQuit>>

\* The messages a save of session k goes through; the faulty variant always
\* takes those of the first one.
ChatOfFirst(k) == sessions[1].chat
ChatToSave(k) == sessions[k].chat

\* The chat in memory or, after chat_free, whatever is found there.
WriteFile ==
    /\ Doing("file") /\ opened
    /\ \E k \in 1..Count :
         /\ sessions[k].id = Head(todo).id
         /\ \E chat \in {ChatToSave(k)} \cup
                        (IF mode = "quitting" /\ ChatToSave(k) # {} THEN {{Garbage}} ELSE {}) :
              /\ Finish(index, [file EXCEPT ![sessions[k].id] = [state |-> "whole", chat |-> chat]])
              /\ hurt' = IF chat = ChatToSave(k) THEN hurt ELSE hurt \cup {sessions[k].id}
    /\ UNCHANGED <<runs, said, atQuit>>

\* persist_delete_session
RemoveFile ==
    /\ Doing("remove")
    /\ Finish(index, [file EXCEPT ![Head(todo).id] = [state |-> "none", chat |-> {}]])
    /\ UNCHANGED <<runs, said, hurt, atQuit>>

\* A session was saved and the index does not list it: the very first one,
\* until something saves everything.
Unlisted ==
    \E s \in Ids : file[s].state = "whole" /\ (index.state = "none" \/ s \notin ToSet(index.ids))

\* The program dies: killed, a power failure, or the freed chats of Quit.
Crash ==
    /\ mode # "down"
    /\ Dead
    /\ todo' = <<>>
    /\ opened' = FALSE
    /\ leaving' = {}
    /\ hurt' = hurt \cup (IF opened THEN {Head(todo).id} ELSE {})
                    \cup (IF Unlisted THEN {0} ELSE {})
    /\ atQuit' = <<>>
    /\ kept' = kept \ leaving
    /\ UNCHANGED <<diskVars, runs, said, gone>>

-----------------------------------------------------------------------------
(* The start.                                                              *)

Loaded ==
    IF index.state # "whole" THEN <<>>
    ELSE [k \in 1..Len(index.ids) |->
            [id |-> index.ids[k],
             chat |-> IF file[index.ids[k]].state = "whole" THEN file[index.ids[k]].chat ELSE {}]]

\* next_id after persist_load; the faulty variant leaves what sm_new_session
\* counted.
CountedId == Len(Loaded) + 1
RestoredId == IF index.state = "whole" THEN index.next_id ELSE 1

\* persist_load, and a first session if there is none; that one is not saved.
Start ==
    /\ mode = "down"
    /\ runs < MaxRuns
    /\ runs' = runs + 1
    /\ mode' = "up"
    /\ IF Loaded = <<>>
       THEN /\ RestoredId \in Ids
            /\ sessions' = <<[id |-> RestoredId, chat |-> {}]>>
            /\ next_id' = RestoredId + 1
       ELSE sessions' = Loaded /\ next_id' = RestoredId
    /\ atQuit' = <<>>
    /\ UNCHANGED <<todo, opened, diskVars, said, leaving, gone, kept, hurt>>

-----------------------------------------------------------------------------

Command ==
    \/ \E k \in 1..Count : Say(k) \/ Reply(k) \/ Clear(k) \/ Delete(k)
    \/ Rename \/ New \/ Quit

Disk == Open \/ WriteFails \/ WriteIndex \/ WriteFile \/ RemoveFile

Next == Command \/ Disk \/ Crash \/ Start

Spec == Init /\ [][Next]_vars

-----------------------------------------------------------------------------
(* Properties.                                                             *)

\* No two sessions share an id, and so a file, and a new one never takes the
\* id of another, through deletions, crashes and restarts.
IdsDistinct ==
    mode = "up" =>
        /\ IsInjective(IdsOf(sessions))
        /\ \A k \in 1..Count : sessions[k].id < next_id

\* A session shows what was said in the session of its id, and nothing else
\* but the garbage of a freed chat: also after an empty index made ids start
\* again at 1, and whatever writes were cut.
OwnMessages ==
    mode = "up" =>
        \A k \in 1..Count : \A m \in sessions[k].chat \ {Garbage} :
            said[m] = sessions[k].id

\* What the user cleared or deleted does not come back, whenever the program
\* dies later and whatever becomes of the index, unless a write of that file
\* had failed.
GoneStaysGone ==
    mode = "up" =>
        \A m \in gone : said[m] \notin hurt => m \notin Shown

\* What a restart would have shown once, every later one shows, unless the
\* user removed it or a write of its own file, or of the index, was cut.
Durable ==
    0 \notin hurt =>
        \A m \in kept \ (gone \cup leaving) :
            said[m] \notin hurt =>
                m \in IF mode = "down" THEN Loadable(index, file) ELSE Shown
=============================================================================
