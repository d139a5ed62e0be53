------------------------- MODULE ConversationProofs -------------------------
(***************************************************************************)
(* Proofs about Conversation, for any number of sessions, requests, table  *)
(* entries, sub-queries and commands.  The inductive invariant is built in *)
(* layers:                                                                 *)
(*   TypesInv   the types, a valid selection, distinct session ids         *)
(*   JobInv     what a thread may be doing                                 *)
(*   QueueInv   a request on its way to the backend has no thread yet      *)
(*   MsgsInv    a turn is answered once: its answer is to be sent, or on   *)
(*              its way, or was handled                                    *)
(*   DownInv    without a connection nothing moves                         *)
(*   TableInv   a turn under way has one entry in the in-flight table      *)
(*   DestInv    every index that travels with a request, or waits in its   *)
(*              entry, is that of its session                              *)
(*   HomeInv    a reply, an error or a topic is in the session of its      *)
(*              request                                                    *)
(*   TalkInv    a session has one turn under way; its chat is empty or     *)
(*              ends with the placeholder, and no other chat has one       *)
(* The steps are brought to a few shapes first; each layer is then kept by *)
(* each shape.                                                             *)
(***************************************************************************)
EXTENDS Conversation, SequenceTheorems, WellFoundedInduction, TLAPS

TypesInv ==
    /\ TypeOK
    /\ SelectionValid
    /\ \A i, j \in 1..Count : sessions[i].id = sessions[j].id => i = j
    /\ \A i \in 1..Count : sessions[i].id < next_id
    /\ \A c \in 1..Len(asked) : asked[c] < next_id

Chat(c) == job[c].kind = "chat"

\* The thread of request c runs.
Runs(c) == job[c].pc \notin {"none", "queued", "done"}
\* The thread of turn c has sent its answer.
Sent(c) == job[c].pc \in {"name", "done"}

JobInv ==
    /\ \A c \in Corrs : /\ c >= next_corr <=> job[c].pc = "none"
                        /\ job[c].pc \in {"loop", "sub", "name"} => Chat(c)
                        /\ job[c].pc \in {"reply", "end"} => ~Chat(c)
                        /\ Runs(c) => job[c].sidx # 0
    /\ \A c \in answered : Chat(c) /\ Sent(c)

QueueInv ==
    /\ \A j \in 1..Len(toBackend) : /\ job[toBackend[j].corr].pc = "queued"
                                    /\ job[toBackend[j].corr].kind = toBackend[j].kind
    /\ \A i, j \in 1..Len(toBackend) : toBackend[i].corr = toBackend[j].corr => i = j

Answer(m) == m.type \in {"REP_FINAL", "REP_ERROR"}

\* Message m fits the jobs, the answered requests and the next corr_id.
MsgFits(m, jobs, done, next) ==
    /\ Answer(m) => /\ m.corr \in Corrs \ done
                    /\ jobs[m.corr].kind = "chat" /\ jobs[m.corr].pc \in {"name", "done"}
    /\ m.type \in {"REP_FINAL", "SESSION_RENAME"} => m.sidx # 0
    /\ m.type = "SESSION_RENAME" => m.corr \in Corrs /\ m.corr < next
    /\ m.type \in {"WORKER_START", "WORKER_END"} /\ m.corr \in Corrs =>
         jobs[m.corr].kind # "chat" /\ m.corr < next

MsgOK(m) == MsgFits(m, job, answered, next_corr)

\* The answer of turn c is on its way.
OnItsWay(c) == \E j \in 1..Len(toTui) : Answer(toTui[j]) /\ toTui[j].corr = c

MsgsInv ==
    /\ \A j \in 1..Len(toTui) : MsgOK(toTui[j])
    /\ \A i, j \in 1..Len(toTui) :
         Answer(toTui[i]) /\ Answer(toTui[j]) /\ toTui[i].corr = toTui[j].corr => i = j
    /\ connected => \A c \in Turns \ answered : Sent(c) => OnItsWay(c)

DownInv ==
    ~connected => /\ toBackend = <<>> /\ toTui = <<>>
                  /\ \A c \in Corrs : ~Runs(c) /\ job[c].pc # "queued"
                  /\ \A k \in Slots : ~Used(k)

\* Entry k is that of a turn.
TurnEntry(k) == in_flight[k].corr \in Corrs /\ Chat(in_flight[k].corr)

TableInv ==
    /\ \A k \in Slots : in_flight[k].corr \in Corrs => in_flight[k].corr < next_corr
    /\ \A k \in Slots : TurnEntry(k) =>
         in_flight[k].depth = 0 /\ in_flight[k].corr \notin answered
    /\ \A k, l \in Slots : TurnEntry(k) /\ in_flight[k].corr = in_flight[l].corr => k = l
    /\ connected /\ "overflow" \notin upset =>
         \A c \in Turns \ answered : \E k \in Slots : in_flight[k].corr = c

\* Index i is that of the session request c was sent from.
Dest(i, c) == i \in 1..Count /\ sessions[i].id = asked[c]

DestInv ==
    "deleted" \notin upset =>
        /\ \A j \in 1..Len(toBackend) : Dest(toBackend[j].sidx, toBackend[j].corr)
        /\ \A c \in Corrs : Runs(c) => Dest(job[c].sidx, c)
        /\ \A j \in 1..Len(toTui) : toTui[j].type \in {"REP_FINAL", "SESSION_RENAME"} =>
             Dest(toTui[j].sidx, toTui[j].corr)
        /\ \A k \in Slots : TurnEntry(k) => Dest(in_flight[k].sidx, in_flight[k].corr)

\* The last message of a chat is a placeholder.
Dots(chat) == chat[Len(chat)].kind = "dots"

ChatInv ==
    upset = {} =>
        \A i \in 1..Count : \A c \in Turns \ answered :
            asked[c] = sessions[i].id => ChatOf(i) = <<>> \/ Dots(ChatOf(i))

-----------------------------------------------------------------------------
(* Numbers and sequences.                                                  *)

LEMMA Bounds ==
    /\ MaxSessions \in Nat \ {0} /\ MaxInFlight \in Nat \ {0} /\ MaxIds \in Nat \ {0}
    /\ MaxCorr \in Nat /\ MaxSubs \in Nat /\ MaxCmds \in Nat
BY BoundsAssumption

\* A set of numbers that is not empty has a least one, the one First takes.
LEMMA FirstIsIn ==
    ASSUME NEW T \in SUBSET Nat, T # {}
    PROVE  First(T) \in T
<1> DEFINE R == OpToRel(<, Nat)
<1>1. IsWellFoundedOn(R, Nat)
  BY NatLessThanWellFounded
<1>2. \E x \in T : \A y \in T : ~ (<<y, x>> \in R)
  BY <1>1, WFMin, Zenon
<1>3. \A x, y \in Nat : y < x => <<y, x>> \in R
  BY DEF OpToRel
<1> HIDE DEF R
<1>4. PICK n \in T : \A y \in T : ~ (<<y, n>> \in R)
  BY <1>2
<1>5. ASSUME NEW m \in T PROVE n <= m
  <2>1. n \in Nat /\ m \in Nat
    OBVIOUS
  <2>2. ~ (m < n)
    BY <1>3, <1>4, <2>1, Zenon
  <2> QED
    BY <2>1, <2>2
<1> QED
  BY <1>5 DEF First

\* The elements of a queue behind its first one.
LEMMA TailIs ==
    ASSUME NEW S, NEW s \in Seq(S), s # <<>>
    PROVE  /\ Len(s) \in Nat \ {0} /\ 1 \in 1..Len(s) /\ s[1] \in S /\ Head(s) = s[1]
           /\ Tail(s) \in Seq(S) /\ Len(Tail(s)) = Len(s) - 1
           /\ \A i \in 1..Len(Tail(s)) : Tail(s)[i] = s[i + 1] /\ i + 1 \in 2..Len(s)
           /\ \A i \in 2..Len(s) : i - 1 \in 1..Len(Tail(s)) /\ Tail(s)[i - 1] = s[i]
<1>1. Len(s) \in Nat \ {0}
  BY EmptySeq
<1>2. 1 \in 1..Len(s) /\ s[1] \in S /\ Head(s) = s[1]
  BY <1>1
<1>3. /\ Tail(s) \in Seq(S) /\ Len(Tail(s)) = Len(s) - 1
      /\ \A i \in 1..Len(Tail(s)) : Tail(s)[i] = s[i + 1]
  BY <1>1, HeadTailProperties
<1>4. \A i \in 1..Len(Tail(s)) : i + 1 \in 2..Len(s)
  BY <1>1, <1>3
<1>5. ASSUME NEW i \in 2..Len(s)
      PROVE  i - 1 \in 1..Len(Tail(s)) /\ Tail(s)[i - 1] = s[i]
  <2>1. i - 1 \in 1..Len(Tail(s)) /\ (i - 1) + 1 = i
    BY <1>1, <1>3
  <2> QED
    BY <1>3, <2>1
<1> QED
  BY <1>1, <1>2, <1>3, <1>4, <1>5

LEMMA AppendIs ==
    ASSUME NEW S, NEW s \in Seq(S), NEW e \in S
    PROVE  /\ Len(s) \in Nat /\ Append(s, e) \in Seq(S) /\ Len(Append(s, e)) = Len(s) + 1
           /\ \A i \in 1..Len(s) : Append(s, e)[i] = s[i]
           /\ Append(s, e)[Len(s) + 1] = e
           /\ \A i \in 1..(Len(s) + 1) : i \in 1..Len(s) \/ i = Len(s) + 1
<1>1. Len(s) \in Nat
  BY LenProperties
<1> QED
  BY <1>1, AppendProperties

\* A chat whose last message gave way to m.
LEMMA ReplaceLastIs ==
    ASSUME NEW S, NEW chat \in Seq(S), NEW m \in S
    PROVE  /\ ReplaceLast(chat, m) \in Seq(S)
           /\ Len(ReplaceLast(chat, m)) = IF chat = <<>> THEN 1 ELSE Len(chat)
           /\ \A k \in 1..Len(ReplaceLast(chat, m)) :
                ReplaceLast(chat, m)[k] =
                  IF k = Len(ReplaceLast(chat, m)) THEN m ELSE chat[k]
           /\ \A k \in 1..Len(ReplaceLast(chat, m)) :
                k = Len(ReplaceLast(chat, m)) \/ k \in 1..Len(chat)
<1>1. Len(chat) \in Nat
  BY LenProperties
<1>2. CASE chat = <<>>
  <2>1. ReplaceLast(chat, m) = Append(<<>>, m) /\ chat = <<>>
    BY <1>2 DEF ReplaceLast, RemoveLast
  <2>2. /\ Append(<<>>, m) \in Seq(S) /\ Len(Append(<<>>, m)) = 1
        /\ Append(<<>>, m)[1] = m
    BY EmptySeq, AppendProperties
  <2>3. \A k \in 1..1 : k = 1
    OBVIOUS
  <2> QED
    BY <1>2, <2>1, <2>2, <2>3
<1>3. CASE chat # <<>>
  <2> DEFINE f == Front(chat)
             n == Len(chat) - 1
  <2>1. Len(chat) # 0
    BY <1>1, <1>3, EmptySeq
  <2>2. n \in Nat /\ Len(chat) = n + 1 /\ f = SubSeq(chat, 1, n)
    BY <1>1, <2>1 DEF Front
  <2>3. n \in Int /\ \A i \in 1..n : chat[i] \in S
    BY <1>1, <2>2
  <2> HIDE DEF f, n
  <2>4. f \in Seq(S) /\ Len(f) = n /\ \A i \in 1..n : f[i] = chat[i]
    BY <2>2, <2>3, SubSeqProperties
  <2>5. ReplaceLast(chat, m) = Append(f, m)
    BY <1>3 DEF ReplaceLast, RemoveLast, f
  <2>6. /\ Append(f, m) \in Seq(S) /\ Len(Append(f, m)) = n + 1
        /\ \A i \in 1..n : Append(f, m)[i] = f[i]
        /\ Append(f, m)[n + 1] = m
    BY <2>4, AppendProperties
  <2> QED
    BY <1>3, <2>2, <2>4, <2>5, <2>6
<1> QED
  BY <1>2, <1>3

\* One element of a sequence changes.
LEMMA ExceptIs ==
    ASSUME NEW S, NEW s \in Seq(S), NEW k \in 1..Len(s), NEW e \in S,
           NEW t, t = [s EXCEPT ![k] = e]
    PROVE  /\ t \in Seq(S) /\ Len(t) = Len(s)
           /\ \A j \in 1..Len(s) : t[j] = IF j = k THEN e ELSE s[j]
BY ExceptSeq

LEMMA RemoveAtIs ==
    ASSUME NEW S, NEW s \in Seq(S), NEW k \in 1..Len(s)
    PROVE  /\ RemoveAt(s, k) \in Seq(S)
           /\ Len(RemoveAt(s, k)) = Len(s) - 1
           /\ \A i \in 1..(Len(s) - 1) :
                RemoveAt(s, k)[i] = s[IF i < k THEN i ELSE i + 1]
<1>0. Len(s) \in Nat
  BY LenProperties
<1> DEFINE a == SubSeq(s, 1, k - 1)
           b == SubSeq(s, k + 1, Len(s))
<1>1. /\ a \in Seq(S) /\ Len(a) = k - 1
      /\ \A i \in 1..(k - 1) : a[i] = s[i]
  <2>1. \A i \in 1..(k - 1) : s[i] \in S
    BY <1>0
  <2> QED
    BY <1>0, <2>1, SubSeqProperties
<1>2. /\ b \in Seq(S) /\ Len(b) = Len(s) - k
      /\ \A i \in 1..(Len(s) - k) : b[i] = s[k + i]
  <2>1. \A i \in (k + 1)..Len(s) : s[i] \in S
    BY <1>0
  <2>2. k + 1 \in Int /\ Len(s) \in Int
    BY <1>0
  <2>3. /\ b \in Seq(S)
        /\ Len(b) = IF k + 1 <= Len(s) THEN Len(s) - (k + 1) + 1 ELSE 0
        /\ \A i \in 1..(Len(s) - (k + 1) + 1) : b[i] = s[(k + 1) + i - 1]
    BY <2>1, <2>2, SubSeqProperties
  <2>4. Len(b) = Len(s) - k
    BY <1>0, <2>3
  <2>5. ASSUME NEW i \in 1..(Len(s) - k)
        PROVE  b[i] = s[k + i]
    <3>1. i \in 1..(Len(s) - (k + 1) + 1) /\ (k + 1) + i - 1 = k + i
      BY <1>0
    <3> QED
      BY <2>3, <3>1
  <2> QED
    BY <2>3, <2>4, <2>5
<1>3. RemoveAt(s, k) = a \o b
  BY DEF RemoveAt
<1> HIDE DEF a, b
<1>4. /\ a \o b \in Seq(S) /\ Len(a \o b) = Len(s) - 1
      /\ \A i \in 1..(Len(s) - 1) : (a \o b)[i] = IF i <= k - 1 THEN a[i] ELSE b[i - (k - 1)]
  <2>1. /\ a \o b \in Seq(S) /\ Len(a \o b) = Len(a) + Len(b)
        /\ \A i \in 1..(Len(a) + Len(b)) :
             (a \o b)[i] = IF i <= Len(a) THEN a[i] ELSE b[i - Len(a)]
    BY <1>1, <1>2, ConcatProperties
  <2>2. Len(a) + Len(b) = Len(s) - 1
    BY <1>0, <1>1, <1>2
  <2> QED
    BY <1>1, <2>1, <2>2
<1>5. ASSUME NEW i \in 1..(Len(s) - 1)
      PROVE  (a \o b)[i] = s[IF i < k THEN i ELSE i + 1]
  <2>1. CASE i < k
    <3>1. i \in 1..(k - 1)
      BY <1>0, <2>1
    <3> QED
      BY <1>0, <1>1, <1>4, <2>1, <3>1
  <2>2. CASE ~(i < k)
    <3>1. i - (k - 1) \in 1..(Len(s) - k) /\ k + (i - (k - 1)) = i + 1
      BY <1>0, <2>2
    <3>2. b[i - (k - 1)] = s[i + 1]
      BY <1>2, <3>1
    <3> QED
      BY <1>0, <1>4, <2>2, <3>2
  <2> QED
    BY <2>1, <2>2
<1> QED
  BY <1>3, <1>4, <1>5
-----------------------------------------------------------------------------
(* The in-flight table and the list of sessions.                           *)

\* A new entry takes a free slot, if there is one.
LEMMA TableWithIs ==
    ASSUME NEW c, NEW d, NEW i
    PROVE  \/ FreeSlots = {} /\ TableWith(c, d, i) = in_flight
           \/ \E k \in Slots :
                /\ in_flight[k].corr = 0
                /\ TableWith(c, d, i) =
                     [in_flight EXCEPT ![k] = [corr |-> c, depth |-> d, sidx |-> i]]
<1>1. CASE FreeSlots = {}
  BY <1>1 DEF TableWith
<1>2. CASE FreeSlots # {}
  <2>1. FreeSlots \in SUBSET Nat
    BY Bounds DEF FreeSlots, Slots
  <2>2. First(FreeSlots) \in FreeSlots
    BY <1>2, <2>1, FirstIsIn
  <2>3. First(FreeSlots) \in Slots /\ in_flight[First(FreeSlots)].corr = 0
    BY <2>2 DEF FreeSlots, Used
  <2> QED
    BY <1>2, <2>3 DEF TableWith
<1> QED
  BY <1>1, <1>2

\* An entry with this corr_id leaves, and names the session; or there is none.
LEMMA RemovedIs ==
    ASSUME NEW c, c # 0
    PROVE  \/ /\ \A k \in Slots : in_flight[k].corr # c
              /\ Removed(c) = in_flight /\ SessionOf(c) = 0
           \/ \E k \in Slots :
                /\ in_flight[k].corr = c
                /\ Removed(c) = [in_flight EXCEPT ![k] = FreeSlot]
                /\ SessionOf(c) = in_flight[k].sidx
<1>1. CASE Entries(c) = {}
  BY <1>1 DEF Entries, Removed, SessionOf, Used
<1>2. CASE Entries(c) # {}
  <2>1. Entries(c) \in SUBSET Nat
    BY Bounds DEF Entries, Slots
  <2>2. First(Entries(c)) \in Entries(c)
    BY <1>2, <2>1, FirstIsIn
  <2>3. First(Entries(c)) \in Slots /\ in_flight[First(Entries(c))].corr = c
    BY <2>2 DEF Entries
  <2> QED
    BY <1>2, <2>3 DEF Removed, SessionOf
<1> QED
  BY <1>1, <1>2

\* What the types say, in the form the steps need.
LEMMA Basics ==
    ASSUME TypesInv
    PROVE  /\ sessions \in Seq(Session) /\ Count \in Nat /\ Count \in 1..MaxSessions
           /\ \A i \in 1..Count : /\ sessions[i] \in Session /\ sessions[i].id \in 1..MaxIds
                                  /\ sessions[i].id \in Nat
                                  /\ ChatOf(i) \in Seq(ChatMsg) /\ Len(ChatOf(i)) \in Nat
                                  /\ sessions[i].topic \in 0..MaxCorr
           /\ next_id \in Nat /\ next_corr \in Nat
           /\ Len(asked) = next_corr - 1 /\ \A c \in 1..Len(asked) : asked[c] \in 1..MaxIds
           /\ \A c \in Corrs : c \in Nat /\ (c < next_corr <=> c \in 1..Len(asked))
           /\ 1..Len(asked) \subseteq Corrs /\ Turns \subseteq Corrs
           /\ active \in 1..Count /\ sidebar_sel \in 1..Count
<1>1. TypeOK
  BY DEF TypesInv
<1>2. /\ sessions \in Seq(Session) /\ Count \in Nat /\ Count \in 1..MaxSessions
      /\ \A i \in 1..Count : sessions[i] \in Session
  BY <1>1, LenProperties, Bounds DEF TypeOK, Count
<1>3. \A i \in 1..Count : /\ sessions[i].id \in 1..MaxIds /\ sessions[i].id \in Nat
                          /\ sessions[i].topic \in 0..MaxCorr
                          /\ ChatOf(i) \in Seq(ChatMsg)
  BY <1>2, Bounds DEF Session, ChatOf
<1>4. \A i \in 1..Count : Len(ChatOf(i)) \in Nat
  BY <1>3, LenProperties
<1>5. /\ next_id \in Nat /\ next_corr \in Nat /\ next_corr \in 1..(MaxCorr + 1)
      /\ asked \in Seq(1..MaxIds) /\ Len(asked) = next_corr - 1
  BY <1>1, Bounds DEF TypeOK
<1>6. \A c \in 1..Len(asked) : asked[c] \in 1..MaxIds
  BY <1>5, ElementOfSeq
<1>7. /\ \A c \in Corrs : c \in Nat /\ (c < next_corr <=> c \in 1..Len(asked))
      /\ 1..Len(asked) \subseteq Corrs
  BY <1>5, Bounds DEF Corrs
<1>8. active \in 1..Count /\ sidebar_sel \in 1..Count
  BY DEF TypesInv, SelectionValid
<1> QED
  BY <1>2, <1>3, <1>4, <1>5, <1>6, <1>7, <1>8 DEF Turns

\* A chat is replaced, and nothing else.
LEMMA WithChatIs ==
    ASSUME sessions \in Seq(Session), NEW i \in 1..Count, NEW chat \in Seq(ChatMsg),
           NEW ss, ss = WithChat(i, chat)
    PROVE  /\ ss \in Seq(Session) /\ Len(ss) = Count
           /\ \A j \in 1..Count : /\ ss[j].id = sessions[j].id /\ ss[j].topic = sessions[j].topic
                                  /\ ss[j].chat = IF j = i THEN chat ELSE sessions[j].chat
<1> DEFINE e == [sessions[i] EXCEPT !.chat = chat]
<1>1. Count \in Nat /\ \A j \in 1..Count : sessions[j] \in Session
  BY LenProperties DEF Count
<1>2. /\ e \in Session /\ e.id = sessions[i].id /\ e.topic = sessions[i].topic
      /\ e.chat = chat
  BY <1>1 DEF Session
<1>3. ss = [sessions EXCEPT ![i] = e]
  BY DEF WithChat
<1> HIDE DEF e
<1>4. /\ ss \in Seq(Session) /\ Len(ss) = Count
      /\ \A j \in 1..Count : ss[j] = IF j = i THEN e ELSE sessions[j]
  BY <1>2, <1>3, ExceptSeq DEF Count
<1> QED
  BY <1>1, <1>2, <1>4
-----------------------------------------------------------------------------
(* The types.                                                              *)

TuiTypes ==
    /\ sessions \in Seq(Session) /\ Len(sessions) \in 1..MaxSessions
    /\ active \in Nat /\ sidebar_sel \in Nat /\ focus \in {"list", "input"}
    /\ next_id \in 1..(MaxIds + 1)

TableType ==
    in_flight \in [Slots -> [corr : 0..(2 * MaxCorr), depth : {0, 1}, sidx : 0..MaxSessions]]

JobType ==
    job \in [Corrs -> [pc : {"none", "queued", "run", "loop", "sub", "name", "reply",
                             "end", "done"},
                       kind : Kinds, sidx : 0..MaxSessions, first : BOOLEAN,
                       subs : 0..MaxSubs]]

OtherTypes ==
    /\ next_corr \in 1..(MaxCorr + 1)
    /\ connected \in BOOLEAN
    /\ toBackend \in Seq(Request) /\ toTui \in Seq(Message)
    /\ asked \in Seq(1..MaxIds) /\ Len(asked) = next_corr - 1
    /\ answered \subseteq Corrs /\ ended \subseteq Corrs
    /\ cmds \in 0..MaxCmds
    /\ upset \subseteq {"deleted", "noted", "overflow"}

LEMMA TypeOKIs == TypeOK <=> TuiTypes /\ TableType /\ JobType /\ OtherTypes
BY DEF TypeOK, TuiTypes, TableType, JobType, OtherTypes

\* What TypesInv says of the sessions, and of the rest.
TuiInv ==
    /\ TuiTypes
    /\ SelectionValid
    /\ \A i, j \in 1..Count : sessions[i].id = sessions[j].id => i = j
    /\ \A i \in 1..Count : sessions[i].id < next_id

LEMMA TypesInvIs ==
    TypesInv <=> /\ TuiInv /\ TableType /\ JobType /\ OtherTypes
                 /\ \A c \in 1..Len(asked) : asked[c] < next_id
BY TypeOKIs DEF TypesInv, TuiInv

LEMMA TypesNext ==
    ASSUME TuiInv', TableType', JobType', OtherTypes',
           \A c \in 1..Len(asked') : asked'[c] < next_id'
    PROVE  TypesInv'
<1>1. TypeOK'
  BY DEF TypeOK, TuiInv, TuiTypes, TableType, JobType, OtherTypes
<1> QED
  BY <1>1 DEF TypesInv, TuiInv

\* The chat of session i becomes chat, and the sessions do not change else.
Edited(i, chat) ==
    /\ i \in 1..Count /\ chat \in Seq(ChatMsg)
    /\ sessions' = WithChat(i, chat)
    /\ UNCHANGED <<listVars, next_id>>

\* The sessions stay where they are, with their ids; new ones may follow.
Stable ==
    /\ Count' \in Nat /\ Count <= Count' /\ next_id <= next_id'
    /\ \A i \in 1..Count : sessions'[i].id = sessions[i].id

LEMMA EditedIs ==
    ASSUME TypesInv, NEW i, NEW chat, Edited(i, chat)
    PROVE  /\ TuiInv' /\ Stable /\ Count' = Count
           /\ \A j \in 1..Count : /\ sessions'[j].topic = sessions[j].topic
                                  /\ sessions'[j].chat = IF j = i THEN chat ELSE sessions[j].chat
<1>1. /\ sessions \in Seq(Session) /\ Count \in Nat /\ Count \in 1..MaxSessions /\ next_id \in Nat
  BY Basics
<1>2. i \in 1..Count /\ chat \in Seq(ChatMsg) /\ sessions' = WithChat(i, chat)
      /\ UNCHANGED <<active, sidebar_sel, focus, next_id>>
  BY DEF Edited, listVars
<1>3. /\ sessions' \in Seq(Session) /\ Len(sessions') = Count
      /\ \A j \in 1..Count : /\ sessions'[j].id = sessions[j].id
                             /\ sessions'[j].topic = sessions[j].topic
                             /\ sessions'[j].chat = IF j = i THEN chat ELSE sessions[j].chat
  <2>1. PICK ss : ss = WithChat(i, chat)
    OBVIOUS
  <2>2. /\ ss \in Seq(Session) /\ Len(ss) = Count
        /\ \A j \in 1..Count : /\ ss[j].id = sessions[j].id /\ ss[j].topic = sessions[j].topic
                               /\ ss[j].chat = IF j = i THEN chat ELSE sessions[j].chat
    <3>1. sessions \in Seq(Session) /\ i \in 1..Count /\ chat \in Seq(ChatMsg)
      BY <1>1, <1>2
    <3> QED
      BY ONLY SMTT(30), <2>1, <3>1, WithChatIs
  <2>3. sessions' = ss
    BY <1>2, <2>1
  <2> QED
    BY ONLY <2>2, <2>3
<1>4. Count' = Count
  BY <1>3 DEF Count
<1>5. TuiInv'
  <2>1. TuiInv
    BY TypesInvIs
  <2>2. TuiTypes'
    BY <1>1, <1>2, <1>3, <2>1 DEF TuiInv, TuiTypes
  <2> QED
    BY <1>2, <1>3, <1>4, <2>1, <2>2 DEF TuiInv, SelectionValid
<1> QED
  BY <1>1, <1>2, <1>3, <1>4, <1>5 DEF Stable

\* Session i gets a name.
LEMMA NamedIs ==
    ASSUME TypesInv, NEW i \in 1..Count, NEW name \in {"default", "topic", "user"},
           NEW topic \in 0..MaxCorr,
           sessions' = [sessions EXCEPT ![i].name = name, ![i].topic = topic],
           UNCHANGED <<listVars, next_id>>
    PROVE  /\ TuiInv' /\ Stable /\ Count' = Count
           /\ \A j \in 1..Count : /\ sessions'[j].topic = IF j = i THEN topic ELSE sessions[j].topic
                                  /\ sessions'[j].chat = sessions[j].chat
<1>1. /\ sessions \in Seq(Session) /\ Count \in Nat /\ Count \in 1..MaxSessions /\ next_id \in Nat
      /\ \A j \in 1..Count : sessions[j] \in Session
  BY Basics
<1> DEFINE e == [[sessions[i] EXCEPT !.name = name] EXCEPT !.topic = topic]
<1>2. e \in Session /\ e.id = sessions[i].id /\ e.topic = topic /\ e.chat = sessions[i].chat
  BY <1>1 DEF Session
<1>3. sessions' = [sessions EXCEPT ![i] = e]
  <2>1. sessions \in [1..Count -> Session]
    BY <1>1, LenProperties DEF Count
  <2> QED
    BY <2>1
<1> HIDE DEF e
<1>4. /\ sessions' \in Seq(Session) /\ Len(sessions') = Count
      /\ \A j \in 1..Count : sessions'[j] = IF j = i THEN e ELSE sessions[j]
  <2>1. e \in Session /\ sessions \in Seq(Session) /\ i \in 1..Len(sessions)
    BY <1>1, <1>2 DEF Count
  <2> PICK s : s = sessions'
    OBVIOUS
  <2>2. s = [sessions EXCEPT ![i] = e]
    BY <1>3
  <2>3. /\ s \in Seq(Session) /\ Len(s) = Len(sessions)
        /\ \A j \in 1..Len(sessions) : s[j] = IF j = i THEN e ELSE sessions[j]
    BY ONLY <2>1, <2>2, ExceptIs
  <2> QED
    BY <2>3 DEF Count
<1>5. Count' = Count /\ \A j \in 1..Count : sessions'[j].id = sessions[j].id
  BY <1>2, <1>4 DEF Count
<1>6. TuiInv'
  <2>1. TuiInv /\ UNCHANGED <<active, sidebar_sel, focus, next_id>>
    BY TypesInvIs DEF listVars
  <2>2. TuiTypes'
    BY <1>1, <1>4, <2>1 DEF TuiInv, TuiTypes
  <2>3. SelectionValid'
    BY <1>5, <2>1 DEF TuiInv, SelectionValid
  <2>4. \A j \in 1..Count' : sessions'[j].id < next_id'
    BY <1>5, <2>1 DEF TuiInv
  <2>5. \A a, b \in 1..Count' : sessions'[a].id = sessions'[b].id => a = b
    BY <1>5, <2>1 DEF TuiInv
  <2> QED
    BY <2>2, <2>3, <2>4, <2>5 DEF TuiInv
<1> QED
  BY <1>1, <1>2, <1>4, <1>5, <1>6 DEF Stable

\* A new session: its id, and that its chat is empty.
LEMMA NewSessionIs ==
    ASSUME next_id \in 1..MaxIds, NEW name \in {"default", "user"}
    PROVE  /\ NewSession(name) \in Session /\ NewSession(name).id = next_id
           /\ NewSession(name).chat = <<>> /\ NewSession(name).topic = 0
<1>1. <<>> \in Seq(ChatMsg)
  BY EmptySeq
<1> QED
  BY <1>1, Bounds DEF NewSession, Session

LEMMA NewIs ==
    ASSUME TypesInv, NEW name \in {"default", "user"}, New(name)
    PROVE  /\ TuiInv' /\ Stable /\ Count' = Count + 1
           /\ \A j \in 1..Count : sessions'[j] = sessions[j]
           /\ sessions'[Count + 1].id = next_id /\ sessions'[Count + 1].chat = <<>>
           /\ sessions'[Count + 1].topic = 0
<1> DEFINE one == NewSession(name)
<1>0. /\ sessions \in Seq(Session) /\ Count \in Nat /\ Count = Len(sessions) /\ next_id \in Nat
      /\ TuiInv /\ next_id \in 1..(MaxIds + 1)
      /\ \A j \in 1..Count : sessions[j].id \in Nat /\ sessions[j].id < next_id
      /\ \A i, j \in 1..Count : sessions[i].id = sessions[j].id => i = j
  <2>1. next_id \in 1..(MaxIds + 1)
    BY DEF TypesInv, TypeOK
  <2> QED
    BY <2>1, Basics, TypesInvIs DEF Count, TuiInv
<1>1. /\ next_id \in 1..MaxIds /\ Count < MaxSessions
      /\ sessions' = Append(sessions, one) /\ next_id' = next_id + 1
      /\ active' = Count + 1 /\ sidebar_sel' = Count + 1 /\ focus' = "input"
  <2>1. /\ Count < MaxSessions /\ next_id <= MaxIds
        /\ sessions' = Append(sessions, one) /\ next_id' = next_id + 1
        /\ active' = Count + 1 /\ sidebar_sel' = Count + 1 /\ focus' = "input"
    BY DEF New
  <2> QED
    BY <1>0, <2>1, Bounds
<1>2. one \in Session /\ one.id = next_id /\ one.chat = <<>> /\ one.topic = 0
  BY <1>1, NewSessionIs
<1> HIDE DEF one
<1>3. /\ sessions' \in Seq(Session) /\ Len(sessions') = Count + 1
      /\ \A j \in 1..Count : sessions'[j] = sessions[j]
      /\ sessions'[Count + 1] = one
      /\ \A j \in 1..(Count + 1) : j \in 1..Count \/ j = Count + 1
  BY <1>0, <1>1, <1>2, AppendIs
<1>4. Count' = Count + 1
  BY <1>3 DEF Count
<1>5. TuiInv'
  <2>1. TuiTypes'
    BY <1>0, <1>1, <1>3, Bounds DEF TuiTypes, TuiInv
  <2>2. SelectionValid'
    BY <1>0, <1>1, <1>4 DEF SelectionValid
  <2>3. ASSUME NEW j \in 1..(Count + 1)
        PROVE  \/ j \in 1..Count /\ sessions'[j].id = sessions[j].id
               \/ j = Count + 1 /\ sessions'[j].id = next_id
    BY <1>2, <1>3
  <2>4. \A j \in 1..Count' : sessions'[j].id < next_id'
    BY <1>0, <1>1, <1>4, <2>3
  <2>5. \A i, j \in 1..Count' : sessions'[i].id = sessions'[j].id => i = j
    BY <1>0, <1>4, <2>3
  <2> QED
    BY <2>1, <2>2, <2>4, <2>5 DEF TuiInv
<1> QED
  BY <1>0, <1>1, <1>2, <1>3, <1>4, <1>5 DEF Stable

\* After a deletion every session is an old one or the new, empty one.
LEMMA DeleteIs ==
    ASSUME TypesInv, Delete
    PROVE  /\ TuiInv' /\ next_id' >= next_id
           /\ \A j \in 1..Count' :
                \/ \E i \in 1..Count : sessions'[j] = sessions[i]
                \/ /\ sessions'[j].id = next_id /\ next_id' = next_id + 1
                   /\ sessions'[j].chat = <<>> /\ sessions'[j].topic = 0
<1> DEFINE i == IF focus = "input" THEN active ELSE sidebar_sel
<1>1. /\ sessions \in Seq(Session) /\ Count \in Nat /\ Count = Len(sessions) /\ next_id \in Nat
      /\ TuiInv /\ i \in 1..Count /\ Count \in 1..MaxSessions /\ next_id \in 1..(MaxIds + 1)
      /\ active \in 1..Count /\ sidebar_sel \in 1..Count /\ focus \in {"list", "input"}
  BY Basics, TypesInvIs DEF Count, TypesInv, TypeOK
<1>2. CASE Count = 1
  <2> DEFINE one == NewSession("default")
  <2>1. /\ sessions' = <<one>> /\ next_id' = next_id + 1 /\ next_id \in 1..MaxIds
        /\ active' = 1 /\ sidebar_sel' = 1 /\ focus' = focus
    BY <1>1, <1>2, Bounds DEF Delete, FreshStart
  <2>2. one \in Session /\ one.id = next_id /\ one.chat = <<>> /\ one.topic = 0
    BY <2>1, NewSessionIs
  <2> HIDE DEF one
  <2>3. sessions' \in Seq(Session) /\ Len(sessions') = 1 /\ sessions'[1] = one
    BY <2>1, <2>2
  <2>4. Count' = 1
    BY <2>3 DEF Count
  <2>5. TuiInv'
    <3>1. TuiTypes'
      BY <1>1, <2>1, <2>3, Bounds DEF TuiTypes
    <3> QED
      BY <1>1, <2>1, <2>2, <2>3, <2>4, <3>1 DEF TuiInv, SelectionValid
  <2> QED
    BY <1>1, <2>1, <2>2, <2>3, <2>4, <2>5
<1>3. CASE Count # 1
  <2>1. /\ sessions' = RemoveAt(sessions, i) /\ next_id' = next_id
        /\ active' = ActiveAfter(i) /\ focus' = focus
        /\ sidebar_sel' = IF sidebar_sel > Count - 1 THEN Count - 1 ELSE sidebar_sel
    BY <1>1, <1>3 DEF Delete
  <2> HIDE DEF i
  <2>2. /\ sessions' \in Seq(Session) /\ Len(sessions') = Count - 1
        /\ \A j \in 1..(Count - 1) : sessions'[j] = sessions[IF j < i THEN j ELSE j + 1]
    BY <1>1, <2>1, RemoveAtIs
  <2>3. Count' = Count - 1
    BY <2>2 DEF Count
  <2>4. \A j \in 1..(Count - 1) : \E a \in 1..Count :
          sessions'[j] = sessions[a] /\ a = IF j < i THEN j ELSE j + 1
    BY <1>1, <2>2
  <2>5. TuiInv'
    <3>1. active' \in 1..(Count - 1) /\ sidebar_sel' \in 1..(Count - 1)
      BY <1>1, <1>3, <2>1 DEF ActiveAfter
    <3>2. TuiTypes'
      BY <1>1, <1>3, <2>1, <2>2, <3>1, Bounds DEF TuiTypes
    <3>3. ASSUME NEW a \in 1..(Count - 1), NEW b \in 1..(Count - 1),
                 sessions'[a].id = sessions'[b].id
          PROVE  a = b
      <4>1. PICK x \in 1..Count : sessions'[a] = sessions[x] /\ x = IF a < i THEN a ELSE a + 1
        BY <2>4
      <4>2. PICK y \in 1..Count : sessions'[b] = sessions[y] /\ y = IF b < i THEN b ELSE b + 1
        BY <2>4
      <4>3. x = y
        BY <1>1, <3>3, <4>1, <4>2 DEF TuiInv
      <4> QED
        BY <1>1, <4>1, <4>2, <4>3
    <3>4. \A a \in 1..(Count - 1) : sessions'[a].id < next_id'
      BY <1>1, <2>1, <2>4 DEF TuiInv
    <3> QED
      BY <2>3, <3>1, <3>2, <3>3, <3>4 DEF TuiInv, SelectionValid
  <2> QED
    BY <1>1, <2>1, <2>3, <2>4, <2>5
<1> QED
  BY <1>2, <1>3
-----------------------------------------------------------------------------
(* The steps by their shapes.  What the user does locally:                 *)

Local ==
    /\ UNCHANGED <<in_flight, next_corr, connected, toBackend, toTui, job, asked, answered, ended>>
    /\ upset \subseteq upset' /\ upset' \subseteq {"deleted", "noted", "overflow"}
    /\ cmds' \in 0..MaxCmds

\* A request is sent from the active session, whose chat becomes chat.
Asked(kind, f, chat) ==
    /\ next_corr \in Corrs /\ connected /\ kind \in Kinds /\ f \in BOOLEAN
    /\ Edited(active, chat)
    /\ in_flight' = TableWith(next_corr, 0, active)
    /\ toBackend' = Append(toBackend,
         [corr |-> next_corr, kind |-> kind, sidx |-> active, first |-> f])
    /\ job' = [job EXCEPT ![next_corr].pc = "queued", ![next_corr].kind = kind]
    /\ next_corr' = next_corr + 1
    /\ asked' = Append(asked, sessions[active].id)
    /\ upset \cup Overflow \subseteq upset' /\ upset' \subseteq upset \cup {"noted", "overflow"}
    /\ UNCHANGED <<connected, toTui, answered, ended, cmds>>

\* The TUI takes the first message, m.
Received(m) ==
    /\ toTui # <<>> /\ m = Head(toTui) /\ toTui' = Tail(toTui)
    /\ UNCHANGED <<next_corr, connected, toBackend, job, asked, cmds>>
    /\ upset \subseteq upset' /\ upset' \subseteq {"deleted", "noted", "overflow"}

\* m is the answer of a turn, and joins the chat of session i.
GotAnswer(m, i, chat) ==
    /\ Received(m) /\ Answer(m)
    /\ Edited(i, chat)
    /\ in_flight' = Removed(m.corr)
    /\ answered' = answered \cup {m.corr}
    /\ UNCHANGED <<ended, upset>>

\* m tells of a worker that begins, or is done.
GotStart(m, i) ==
    /\ Received(m) /\ m.type = "WORKER_START"
    /\ i \in 1..MaxSessions
    /\ in_flight' = TableWith(m.corr, 1, i)
    /\ Overflow \subseteq upset'
    /\ UNCHANGED <<sessions, listVars, next_id, answered, ended>>

GotEnd(m) ==
    /\ Received(m) /\ m.type = "WORKER_END"
    /\ in_flight' = Removed(m.corr)
    /\ ended' \subseteq Corrs
    /\ UNCHANGED <<sessions, listVars, next_id, answered, upset>>

\* m is a result to show, or a topic.
GotOther(m) ==
    /\ Received(m) /\ ~Answer(m)
    /\ UNCHANGED <<in_flight, answered, ended>>

\* The thread of request c comes to "to", and sends a message or none.
Silent(c, to) == Chat(c) => (Sent(c) <=> to \in {"name", "done"})

Says(c, to, m) ==
    \/ /\ Answer(m) /\ m.corr = c /\ Chat(c) /\ ~Sent(c) /\ to \in {"name", "done"}
       /\ m.type = "REP_FINAL" => m.sidx = job[c].sidx
    \/ /\ ~Answer(m) /\ Silent(c, to)
       /\ m.type = "SESSION_RENAME" => m.corr = c /\ m.sidx = job[c].sidx
       /\ m.type \in {"WORKER_START", "WORKER_END"} /\ m.corr \in Corrs =>
            m.corr = c /\ ~Chat(c)

ThreadMove(c, to, subs) ==
    /\ Runs(c) /\ to \in {"loop", "sub", "name", "reply", "end", "done"}
    /\ subs \in 0..MaxSubs
    /\ to \in {"loop", "sub", "name"} => Chat(c)
    /\ to \in {"reply", "end"} => ~Chat(c)
    /\ job' = [job EXCEPT ![c] = [pc |-> to, kind |-> job[c].kind, sidx |-> job[c].sidx,
                                  first |-> job[c].first, subs |-> subs]]
    /\ \/ toTui' = toTui /\ Silent(c, to)
       \/ \E m \in Message : toTui' = Append(toTui, m) /\ Says(c, to, m)
    /\ UNCHANGED <<toBackend, backendOnly>>

LEMMA MIsMsg ==
    ASSUME NEW kind \in {"user", "dots", "reply", "error", "system"}, NEW c \in 0..MaxCorr
    PROVE  M(kind, c) \in ChatMsg /\ M(kind, c).kind = kind /\ M(kind, c).corr = c
BY DEF M, ChatMsg

\* The chat with a question and the placeholder of its reply.
LEMMA AskedChatIs ==
    ASSUME NEW chat \in Seq(ChatMsg), NEW c \in Corrs
    PROVE  LET new == chat \o <<M("user", c), M("dots", c)>>
           IN  /\ new \in Seq(ChatMsg) /\ Len(chat) \in Nat /\ Len(new) = Len(chat) + 2
               /\ \A k \in 1..Len(chat) : new[k] = chat[k]
               /\ new[Len(chat) + 1] = M("user", c) /\ new[Len(chat) + 2] = M("dots", c)
               /\ \A k \in 1..Len(new) :
                    k \in 1..Len(chat) \/ k = Len(chat) + 1 \/ k = Len(chat) + 2
<1> DEFINE u == M("user", c)
           d == M("dots", c)
<1>1. u \in ChatMsg /\ d \in ChatMsg
  BY MIsMsg, Bounds DEF Corrs
<1> HIDE DEF u, d
<1>2. <<u, d>> \in Seq(ChatMsg) /\ Len(<<u, d>>) = 2 /\ <<u, d>>[1] = u /\ <<u, d>>[2] = d
  BY <1>1
<1>3. Len(chat) \in Nat
  BY LenProperties
<1> DEFINE new == chat \o <<u, d>>
<1>4. /\ new \in Seq(ChatMsg) /\ Len(new) = Len(chat) + 2
      /\ \A k \in 1..(Len(chat) + 2) :
           new[k] = IF k <= Len(chat) THEN chat[k] ELSE <<u, d>>[k - Len(chat)]
  BY <1>2, ConcatProperties
<1> HIDE DEF new
<1>5. /\ new \in Seq(ChatMsg) /\ Len(chat) \in Nat /\ Len(new) = Len(chat) + 2
      /\ \A k \in 1..Len(chat) : new[k] = chat[k]
      /\ new[Len(chat) + 1] = u /\ new[Len(chat) + 2] = d
      /\ \A k \in 1..Len(new) :
           k \in 1..Len(chat) \/ k = Len(chat) + 1 \/ k = Len(chat) + 2
  <2>1. Len(chat) + 1 \in 1..(Len(chat) + 2) /\ Len(chat) + 2 \in 1..(Len(chat) + 2)
    BY <1>3
  <2>2. new[Len(chat) + 1] = <<u, d>>[1] /\ new[Len(chat) + 2] = <<u, d>>[2]
    <3>1. (Len(chat) + 1) - Len(chat) = 1 /\ (Len(chat) + 2) - Len(chat) = 2
      BY <1>3
    <3> QED
      BY <1>3, <1>4, <2>1, <3>1
  <2> QED
    BY SMTT(30), <1>2, <1>3, <1>4, <2>2
<1> QED
  BY <1>5 DEF new, u, d

\* Submit and the /fs commands ask.
LEMMA SubmitIs ==
    ASSUME TypesInv, Submit
    PROVE  \E f \in BOOLEAN :
             /\ Asked("chat", f, ChatOf(active) \o <<M("user", next_corr), M("dots", next_corr)>>)
             /\ upset' = upset \cup Overflow /\ ~SessionActive(active)
<1> DEFINE f == ChatOf(active) = <<>>
           chat == ChatOf(active) \o <<M("user", next_corr), M("dots", next_corr)>>
<1>1. active \in 1..Count /\ ChatOf(active) \in Seq(ChatMsg) /\ next_corr \in Corrs
  BY Basics DEF Submit
<1>2. chat \in Seq(ChatMsg)
  BY <1>1, AskedChatIs
<1>3. Edited(active, chat)
  BY <1>1, <1>2 DEF Submit, Edited
<1>4. f \in BOOLEAN
  OBVIOUS
<1>5. Overflow \subseteq {"noted", "overflow"}
  BY DEF Overflow
<1>6. Asked("chat", f, chat)
  BY <1>3, <1>4, <1>5 DEF Submit, MaySubmit, Asked, Kinds
<1>7. upset' = upset \cup Overflow /\ ~SessionActive(active)
  BY DEF Submit, MaySubmit
<1> QED
  BY <1>4, <1>6, <1>7

LEMMA WithMsgIs ==
    ASSUME TypesInv, sessions' = WithMsg(active, M("system", 0)), UNCHANGED <<listVars, next_id>>
    PROVE  Edited(active, Append(ChatOf(active), M("system", 0)))
<1>1. active \in 1..Count /\ ChatOf(active) \in Seq(ChatMsg)
  BY Basics
<1>2. M("system", 0) \in ChatMsg
  BY MIsMsg, Bounds
<1>3. Append(ChatOf(active), M("system", 0)) \in Seq(ChatMsg)
  BY <1>1, <1>2, AppendIs
<1> QED
  BY <1>1, <1>3 DEF WithMsg, Edited

LEMMA NotedIs ==
    ASSUME NEW i
    PROVE  upset \subseteq Noted(i) /\ Noted(i) \subseteq upset \cup {"noted"}
BY DEF Noted

LEMMA FsCommandIs ==
    ASSUME TypesInv, NEW op \in FsOps, FsCommand(op)
    PROVE  /\ Asked(op, FALSE, Append(ChatOf(active), M("system", 0))) /\ op # "chat"
           /\ upset' = Noted(active) \cup Overflow
<1>1. op \in Kinds /\ op # "chat"
  BY BoundsAssumption DEF Kinds
<1>2. Edited(active, Append(ChatOf(active), M("system", 0)))
  BY WithMsgIs DEF FsCommand
<1>3. upset \subseteq Noted(active) /\ Noted(active) \subseteq upset \cup {"noted"}
  BY NotedIs
<1>4. Overflow \subseteq {"noted", "overflow"}
  BY DEF Overflow
<1>5. Asked(op, FALSE, Append(ChatOf(active), M("system", 0)))
  BY <1>1, <1>2, <1>3, <1>4 DEF FsCommand, Asked
<1> QED
  BY <1>1, <1>5 DEF FsCommand
\* The first message of the queue, and where its session is.
LEMMA HeadIs ==
    ASSUME TypesInv, MsgsInv, toTui # <<>>
    PROVE  /\ Head(toTui) \in Message /\ MsgOK(Head(toTui)) /\ Head(toTui) = toTui[1]
           /\ Head(toTui).corr \in 1..(2 * MaxCorr) /\ Head(toTui).corr # 0
<1>1. toTui \in Seq(Message)
  BY DEF TypesInv, TypeOK
<1>2. 1 \in 1..Len(toTui) /\ toTui[1] \in Message /\ Head(toTui) = toTui[1]
  BY <1>1, TailIs
<1>3. MsgOK(toTui[1])
  BY <1>2 DEF MsgsInv
<1>4. toTui[1].corr \in 1..(2 * MaxCorr)
  BY <1>2 DEF Message
<1> QED
  BY <1>2, <1>3, <1>4, Bounds

LEMMA SessionOfType ==
    ASSUME TypesInv, NEW c
    PROVE  SessionOf(c) \in 0..MaxSessions
<1>1. in_flight \in [Slots -> [corr : 0..(2 * MaxCorr), depth : {0, 1}, sidx : 0..MaxSessions]]
  BY DEF TypesInv, TypeOK
<1>2. CASE Entries(c) = {}
  BY <1>2, Bounds DEF SessionOf
<1>3. CASE Entries(c) # {}
  <2>1. Entries(c) \in SUBSET Nat
    BY Bounds DEF Entries, Slots
  <2>2. First(Entries(c)) \in Entries(c)
    BY <1>3, <2>1, FirstIsIn
  <2>3. First(Entries(c)) \in Slots
    BY <2>2 DEF Entries
  <2>4. in_flight[First(Entries(c))].sidx \in 0..MaxSessions
    BY <1>1, <2>3
  <2> QED
    BY <1>3, <2>4 DEF SessionOf
<1> QED
  BY <1>2, <1>3

LEMMA ReceivedIs ==
    ASSUME TypesInv, NEW type, Takes(type),
           UNCHANGED <<next_corr, connected, toBackend, job, asked, cmds>>,
           upset \subseteq upset', upset' \subseteq {"deleted", "noted", "overflow"}
    PROVE  Received(Head(toTui)) /\ Head(toTui).type = type
BY DEF Takes, Received

LEMMA ReplacedIs ==
    ASSUME TypesInv, NEW i \in 1..Count, NEW kind \in {"reply", "error"}, NEW c \in Corrs,
           sessions' = WithChat(i, ReplaceLast(ChatOf(i), M(kind, c))),
           UNCHANGED <<listVars, next_id>>
    PROVE  Edited(i, ReplaceLast(ChatOf(i), M(kind, c)))
<1>1. ChatOf(i) \in Seq(ChatMsg)
  BY Basics
<1>2. M(kind, c) \in ChatMsg
  BY MIsMsg, Bounds DEF Corrs
<1>3. ReplaceLast(ChatOf(i), M(kind, c)) \in Seq(ChatMsg)
  BY <1>1, <1>2, ReplaceLastIs
<1> QED
  BY <1>3 DEF Edited

LEMMA UpsetType ==
    ASSUME TypesInv
    PROVE  upset \subseteq {"deleted", "noted", "overflow"}
BY DEF TypesInv, TypeOK

LEMMA ReceiveFinalIs ==
    ASSUME TypesInv, MsgsInv, ReceiveFinal
    PROVE  LET m == Head(toTui)
               i == FinalTarget(m)
           IN  /\ m.type = "REP_FINAL" /\ m.corr \in Corrs /\ i \in 1..Count
               /\ GotAnswer(m, i, ReplaceLast(ChatOf(i), M("reply", m.corr)))
<1> DEFINE m == Head(toTui)
           i == FinalTarget(m)
<1>1. Received(m) /\ m.type = "REP_FINAL" /\ toTui # <<>>
  <2>1. upset \subseteq {"deleted", "noted", "overflow"} /\ upset' = upset
    BY UpsetType DEF ReceiveFinal
  <2> QED
    BY <2>1, ReceivedIs DEF ReceiveFinal, Takes
<1>2. m \in Message /\ MsgOK(m)
  BY <1>1, HeadIs
<1>3. Answer(m) /\ m.corr \in Corrs /\ m.sidx # 0 /\ m.sidx \in 0..MaxSessions
  BY <1>1, <1>2 DEF MsgOK, MsgFits, Answer, Message
<1>4. SessionOf(m.corr) \in 0..MaxSessions
  BY SessionOfType
<1>5. i \in 1..Count
  <2>1. active \in 1..Count /\ Count \in Nat
    BY Basics
  <2> QED
    BY <1>3, <1>4, <2>1, Bounds DEF FinalTarget
<1>6. /\ sessions' = WithChat(i, ReplaceLast(ChatOf(i), M("reply", m.corr)))
      /\ in_flight' = Removed(m.corr) /\ answered' = answered \cup {m.corr}
      /\ UNCHANGED <<listVars, next_id, ended, upset>>
  BY DEF ReceiveFinal
<1> HIDE DEF m, i
<1>7. Edited(i, ReplaceLast(ChatOf(i), M("reply", m.corr)))
  BY <1>3, <1>5, <1>6, ReplacedIs
<1>8. GotAnswer(m, i, ReplaceLast(ChatOf(i), M("reply", m.corr)))
  BY <1>1, <1>3, <1>6, <1>7 DEF GotAnswer
<1> QED
  BY <1>1, <1>3, <1>5, <1>8 DEF m, i

LEMMA ReceiveErrorIs ==
    ASSUME TypesInv, MsgsInv, ReceiveError
    PROVE  LET m == Head(toTui)
               i == IF SessionOf(m.corr) \in 1..Count THEN SessionOf(m.corr) ELSE active
           IN  /\ m.type = "REP_ERROR" /\ m.corr \in Corrs /\ i \in 1..Count
               /\ GotAnswer(m, i, ReplaceLast(ChatOf(i), M("error", m.corr)))
<1> DEFINE m == Head(toTui)
           i == IF SessionOf(m.corr) \in 1..Count THEN SessionOf(m.corr) ELSE active
<1>1. Received(m) /\ m.type = "REP_ERROR" /\ toTui # <<>>
  <2>1. upset \subseteq {"deleted", "noted", "overflow"} /\ upset' = upset
    BY UpsetType DEF ReceiveError
  <2> QED
    BY <2>1, ReceivedIs DEF ReceiveError, Takes
<1>2. m \in Message /\ MsgOK(m)
  BY <1>1, HeadIs
<1>3. Answer(m) /\ m.corr \in Corrs
  BY <1>1, <1>2 DEF MsgOK, MsgFits, Answer
<1>4. i \in 1..Count
  BY Basics
<1>5. /\ sessions' = WithChat(i, ReplaceLast(ChatOf(i), M("error", m.corr)))
      /\ in_flight' = Removed(m.corr) /\ answered' = answered \cup {m.corr}
      /\ UNCHANGED <<listVars, next_id, ended, upset>>
  BY DEF ReceiveError
<1> HIDE DEF m, i
<1>6. Edited(i, ReplaceLast(ChatOf(i), M("error", m.corr)))
  BY <1>3, <1>4, <1>5, ReplacedIs
<1>7. GotAnswer(m, i, ReplaceLast(ChatOf(i), M("error", m.corr)))
  BY <1>1, <1>3, <1>5, <1>6 DEF GotAnswer
<1> QED
  BY <1>1, <1>3, <1>4, <1>7 DEF m, i

LEMMA ReceiveStartIs ==
    ASSUME TypesInv, MsgsInv, ReceiveStart
    PROVE  /\ \E i \in 1..MaxSessions : GotStart(Head(toTui), i)
           /\ upset' = upset \cup Overflow
<1> DEFINE m == Head(toTui)
           i == IF SessionOf(m.parent) # 0 THEN SessionOf(m.parent) ELSE active
<1>1. Received(m) /\ m.type = "WORKER_START" /\ toTui # <<>>
  <2>1. upset \subseteq {"deleted", "noted", "overflow"} /\ upset' = upset \cup Overflow
    BY UpsetType DEF ReceiveStart
  <2>2. upset \subseteq upset' /\ upset' \subseteq {"deleted", "noted", "overflow"}
    BY <2>1 DEF Overflow
  <2> QED
    BY <2>2, ReceivedIs DEF ReceiveStart, Takes
<1>2. i \in 1..MaxSessions
  <2>1. SessionOf(m.parent) \in 0..MaxSessions
    BY SessionOfType
  <2>2. active \in 1..Count /\ Count \in 1..MaxSessions
    BY Basics
  <2> QED
    BY <2>1, <2>2, Bounds
<1>3. /\ in_flight' = TableWith(m.corr, 1, i) /\ upset' = upset \cup Overflow
      /\ UNCHANGED <<sessions, listVars, next_id, answered, ended>>
  BY DEF ReceiveStart
<1> HIDE DEF i
<1>4. GotStart(m, i)
  BY <1>1, <1>2, <1>3 DEF GotStart
<1> QED
  BY <1>2, <1>3, <1>4

LEMMA ReceiveEndIs ==
    ASSUME TypesInv, MsgsInv, ReceiveEnd
    PROVE  GotEnd(Head(toTui))
<1> DEFINE m == Head(toTui)
<1>1. Received(m) /\ m.type = "WORKER_END"
  <2>1. upset \subseteq {"deleted", "noted", "overflow"} /\ upset' = upset
    BY UpsetType DEF ReceiveEnd
  <2> QED
    BY <2>1, ReceivedIs DEF ReceiveEnd
<1>2. ended' \subseteq Corrs
  BY DEF ReceiveEnd, TypesInv, TypeOK
<1> QED
  BY <1>1, <1>2 DEF GotEnd, ReceiveEnd

LEMMA ReceiveRepIs ==
    ASSUME TypesInv, MsgsInv, ReceiveRep
    PROVE  /\ GotOther(Head(toTui)) /\ UNCHANGED <<listVars, next_id>>
           /\ \/ /\ Edited(active, Append(ChatOf(active), M("system", 0)))
                 /\ upset' = Noted(active)
              \/ UNCHANGED <<sessions, upset>>
<1>1. /\ \/ sessions' = WithMsg(active, M("system", 0)) /\ upset' = Noted(active)
         \/ UNCHANGED <<sessions, upset>>
      /\ Takes("WORKER_REP")
      /\ UNCHANGED <<listVars, next_id, in_flight, next_corr, connected, toBackend,
                     job, asked, answered, ended, cmds>>
  BY DEF ReceiveRep
<1>2. upset \subseteq upset' /\ upset' \subseteq {"deleted", "noted", "overflow"}
  BY <1>1, UpsetType, NotedIs
<1>3. Received(Head(toTui)) /\ Head(toTui).type = "WORKER_REP"
  BY <1>1, <1>2, ReceivedIs
<1> QED
  BY <1>1, <1>3, WithMsgIs DEF GotOther, Answer

LEMMA ReceiveRenameIs ==
    ASSUME TypesInv, MsgsInv, ReceiveRename
    PROVE  LET m == Head(toTui)
               i == m.sidx
           IN  /\ GotOther(m) /\ UNCHANGED <<listVars, next_id, upset>>
               /\ m.type = "SESSION_RENAME" /\ m.corr \in 1..Len(asked) /\ i # 0
               /\ \/ i \in 1..Count
                     /\ sessions' = [sessions EXCEPT ![i].name = "topic", ![i].topic = m.corr]
                  \/ UNCHANGED sessions
<1> DEFINE m == Head(toTui)
           i == m.sidx
<1>1. /\ Takes("SESSION_RENAME")
      /\ sessions' = IF i <= Count /\ sessions[i].name = "default"
                     THEN [sessions EXCEPT ![i].name = "topic", ![i].topic = m.corr]
                     ELSE sessions
      /\ UNCHANGED <<listVars, next_id, in_flight, next_corr, connected, toBackend, job,
                     asked, answered, ended, cmds, upset>>
  BY DEF ReceiveRename, histVars
<1>2. Received(m) /\ m.type = "SESSION_RENAME" /\ toTui # <<>>
  BY <1>1, ReceivedIs, UpsetType DEF Takes
<1>3. m \in Message /\ MsgOK(m)
  BY <1>2, HeadIs
<1>4. m.corr \in 1..Len(asked) /\ i # 0 /\ i \in 0..MaxSessions
  BY <1>2, <1>3, Basics DEF MsgOK, MsgFits, Message
<1>5. i <= Count => i \in 1..Count
  BY <1>4, Basics, Bounds
<1> HIDE DEF m
<1> QED
  BY <1>1, <1>2, <1>4, <1>5 DEF GotOther, Answer, m
\* What the steps of a thread have in common.
LEMMA GotoIs ==
    ASSUME TypesInv, NEW c \in Corrs, NEW from, NEW to, Goto(c, from, to)
    PROVE  /\ job[c].pc \in from /\ job[c].subs \in 0..MaxSubs
           /\ job' = [job EXCEPT ![c] = [pc |-> to, kind |-> job[c].kind, sidx |-> job[c].sidx,
                                         first |-> job[c].first, subs |-> job[c].subs]]
<1>1. JobType
  BY TypesInvIs
<1>2. job[c] \in [pc : {"none", "queued", "run", "loop", "sub", "name", "reply", "end", "done"},
                  kind : Kinds, sidx : 0..MaxSessions, first : BOOLEAN, subs : 0..MaxSubs]
  BY <1>1 DEF JobType
<1>3. [job[c] EXCEPT !.pc = to] =
        [pc |-> to, kind |-> job[c].kind, sidx |-> job[c].sidx,
         first |-> job[c].first, subs |-> job[c].subs]
  BY <1>2
<1> QED
  BY <1>1, <1>2, <1>3 DEF Goto, JobType

LEMMA SendIs ==
    ASSUME NEW type \in {"REP_FINAL", "REP_ERROR", "SESSION_RENAME",
                         "WORKER_START", "WORKER_REP", "WORKER_END"},
           NEW c \in 1..(2 * MaxCorr), NEW parent \in 0..MaxCorr, NEW i \in 0..MaxSessions,
           Send(type, c, parent, i)
    PROVE  \E m \in Message : /\ toTui' = Append(toTui, m)
                              /\ m.type = type /\ m.corr = c /\ m.sidx = i
<1> DEFINE m == [type |-> type, corr |-> c, parent |-> parent, sidx |-> i]
<1>1. m \in Message /\ m.type = type /\ m.corr = c /\ m.sidx = i
  BY DEF Message
<1> QED
  BY <1>1 DEF Send

LEMMA CorrIs ==
    ASSUME NEW c \in Corrs
    PROVE  /\ c \in 1..(2 * MaxCorr) /\ c \in 0..MaxCorr
           /\ SubCorr(c) \in 1..(2 * MaxCorr) /\ SubCorr(c) \notin Corrs /\ 0 \in 0..MaxSessions
           /\ 0 \in 0..MaxCorr
BY Bounds DEF Corrs, SubCorr

LEMMA ThreadIs ==
    ASSUME TypesInv, JobInv, NEW c \in Corrs, ThreadStep(c)
    PROVE  \E to, subs : ThreadMove(c, to, subs)
<1> DEFINE Step(to, n) == /\ Runs(c) /\ n \in 0..MaxSubs
                          /\ job' = [job EXCEPT ![c] =
                               [pc |-> to, kind |-> job[c].kind, sidx |-> job[c].sidx,
                                first |-> job[c].first, subs |-> n]]
                          /\ UNCHANGED <<toBackend, backendOnly>>
<1>1. /\ job[c].pc \in {"loop", "sub", "name"} => Chat(c)
      /\ job[c].pc \in {"reply", "end"} => ~Chat(c)
      /\ job[c].sidx \in 0..MaxSessions
  BY DEF JobInv, TypesInv, TypeOK
<1>2. CASE NoProvider(c)
  <2>1. Step("done", job[c].subs) /\ Chat(c) /\ ~Sent(c)
    BY <1>2, GotoIs DEF NoProvider, Runs, Chat, Sent
  <2>2. PICK m \in Message : toTui' = Append(toTui, m) /\ m.type = "REP_ERROR" /\ m.corr = c
    <3>1. Send("REP_ERROR", c, 0, 0)
      BY <1>2 DEF NoProvider
    <3>2. c \in 1..(2 * MaxCorr) /\ 0 \in 0..MaxCorr /\ 0 \in 0..MaxSessions
      BY <1>1, CorrIs
    <3> QED
      BY ONLY <3>1, <3>2, SendIs
  <2>3. ThreadMove(c, "done", job[c].subs)
    BY <2>1, <2>2 DEF ThreadMove, Says, Answer
  <2> QED
    BY <2>3
<1>3. CASE StartSub(c)
  <2> DEFINE n == job[c].subs + 1
  <2>1. Step("sub", n) /\ Chat(c) /\ ~Sent(c)
    <3>1. JobType
      BY TypesInvIs
    <3>2. job[c] \in [pc : {"none", "queued", "run", "loop", "sub", "name", "reply", "end",
                            "done"},
                      kind : Kinds, sidx : 0..MaxSessions, first : BOOLEAN, subs : 0..MaxSubs]
      BY <3>1 DEF JobType
    <3>3. n \in 0..MaxSubs
      BY <1>3, <3>2, Bounds DEF StartSub
    <3>4. [[job[c] EXCEPT !.pc = "sub"] EXCEPT !.subs = n] =
            [pc |-> "sub", kind |-> job[c].kind, sidx |-> job[c].sidx,
             first |-> job[c].first, subs |-> n]
      <4> PICK k : k = n
        OBVIOUS
      <4>1. [job[c] EXCEPT !.pc = "sub"] =
              [pc |-> "sub", kind |-> job[c].kind, sidx |-> job[c].sidx,
               first |-> job[c].first, subs |-> job[c].subs]
        BY ONLY <3>2
      <4>2. [[pc |-> "sub", kind |-> job[c].kind, sidx |-> job[c].sidx,
              first |-> job[c].first, subs |-> job[c].subs] EXCEPT !.subs = k] =
              [pc |-> "sub", kind |-> job[c].kind, sidx |-> job[c].sidx,
               first |-> job[c].first, subs |-> k]
        BY ONLY TRUE
      <4> QED
        BY <4>1, <4>2
    <3>5. job' = [job EXCEPT ![c] = [[job[c] EXCEPT !.pc = "sub"] EXCEPT !.subs = n]]
      BY <1>3, <3>1 DEF StartSub, JobType
    <3> QED
      BY <1>3, <3>3, <3>4, <3>5 DEF StartSub, Runs, Chat, Sent
  <2>2. PICK m \in Message : /\ toTui' = Append(toTui, m)
                             /\ m.type = "WORKER_START" /\ m.corr = SubCorr(c)
    <3>1. Send("WORKER_START", SubCorr(c), c, 0)
      BY <1>3 DEF StartSub
    <3>2. SubCorr(c) \in 1..(2 * MaxCorr) /\ c \in 0..MaxCorr /\ 0 \in 0..MaxSessions
      BY <1>1, CorrIs
    <3> QED
      BY ONLY <3>1, <3>2, SendIs
  <2>3. ThreadMove(c, "sub", n)
    BY <2>1, <2>2, CorrIs DEF ThreadMove, Says, Silent, Answer
  <2> QED
    BY <2>3
<1>4. CASE EndSub(c)
  <2>1. Step("loop", job[c].subs) /\ Chat(c) /\ ~Sent(c)
    BY <1>1, <1>4, GotoIs DEF EndSub, Runs, Chat, Sent
  <2>2. PICK m \in Message : /\ toTui' = Append(toTui, m)
                             /\ m.type = "WORKER_END" /\ m.corr = SubCorr(c)
    <3>1. Send("WORKER_END", SubCorr(c), 0, 0)
      BY <1>4 DEF EndSub
    <3>2. SubCorr(c) \in 1..(2 * MaxCorr) /\ 0 \in 0..MaxCorr /\ 0 \in 0..MaxSessions
      BY <1>1, CorrIs
    <3> QED
      BY ONLY <3>1, <3>2, SendIs
  <2>3. ThreadMove(c, "loop", job[c].subs)
    BY <2>1, <2>2, CorrIs DEF ThreadMove, Says, Silent, Answer
  <2> QED
    BY <2>3
<1>5. CASE SendFinal(c)
  <2>1. PICK to \in {"done", "name"} : Goto(c, {"run", "loop"}, to)
    BY <1>5 DEF SendFinal
  <2>2. Step(to, job[c].subs) /\ Chat(c) /\ ~Sent(c)
    BY <1>5, <2>1, GotoIs DEF SendFinal, Runs, Chat, Sent
  <2>3. PICK m \in Message : /\ toTui' = Append(toTui, m) /\ m.type = "REP_FINAL" /\ m.corr = c
                             /\ m.sidx = job[c].sidx
    <3>1. Send("REP_FINAL", c, 0, job[c].sidx)
      BY <1>5 DEF SendFinal
    <3>2. c \in 1..(2 * MaxCorr) /\ 0 \in 0..MaxCorr /\ job[c].sidx \in 0..MaxSessions
      BY <1>1, CorrIs
    <3> QED
      BY ONLY <3>1, <3>2, SendIs
  <2>4. ThreadMove(c, to, job[c].subs)
    BY <2>2, <2>3 DEF ThreadMove, Says, Answer
  <2> QED
    BY <2>4
<1>6. CASE NameSession(c)
  <2>1. Step("done", job[c].subs) /\ Chat(c) /\ Sent(c)
    BY <1>1, <1>6, GotoIs DEF NameSession, Runs, Chat, Sent
  <2>2. CASE UNCHANGED toTui
    <3>1. ThreadMove(c, "done", job[c].subs)
      BY <2>1, <2>2 DEF ThreadMove, Silent
    <3> QED
      BY <3>1
  <2>3. CASE Send("SESSION_RENAME", c, 0, job[c].sidx)
    <3>1. PICK m \in Message : /\ toTui' = Append(toTui, m) /\ m.type = "SESSION_RENAME"
                               /\ m.corr = c /\ m.sidx = job[c].sidx
      <4>1. Send("SESSION_RENAME", c, 0, job[c].sidx)
        BY <2>3
      <4>2. c \in 1..(2 * MaxCorr) /\ 0 \in 0..MaxCorr /\ job[c].sidx \in 0..MaxSessions
        BY <1>1, CorrIs
      <4> QED
        BY ONLY <4>1, <4>2, SendIs
    <3>2. ThreadMove(c, "done", job[c].subs)
      BY <2>1, <3>1 DEF ThreadMove, Says, Silent, Answer
    <3> QED
      BY <3>2
  <2> QED
    BY <1>6, <2>2, <2>3 DEF NameSession
<1>7. CASE FsProgress(c)
  <2>1. Step("reply", job[c].subs) /\ ~Chat(c)
    BY <1>7, GotoIs DEF FsProgress, Runs, Chat
  <2>2. PICK m \in Message : /\ toTui' = Append(toTui, m)
                             /\ m.type = "WORKER_START" /\ m.corr = c
    <3>1. Send("WORKER_START", c, 0, 0)
      BY <1>7 DEF FsProgress
    <3>2. c \in 1..(2 * MaxCorr) /\ 0 \in 0..MaxCorr /\ 0 \in 0..MaxSessions
      BY <1>1, CorrIs
    <3> QED
      BY ONLY <3>1, <3>2, SendIs
  <2>3. ThreadMove(c, "reply", job[c].subs)
    BY <2>1, <2>2 DEF ThreadMove, Says, Silent, Answer
  <2> QED
    BY <2>3
<1>8. CASE FsReply(c)
  <2>1. Step("end", job[c].subs) /\ ~Chat(c)
    BY <1>8, GotoIs DEF FsReply, Runs, Chat
  <2>2. PICK m \in Message : toTui' = Append(toTui, m) /\ m.type = "WORKER_REP"
    <3>1. Send("WORKER_REP", c, 0, 0)
      BY <1>8 DEF FsReply
    <3>2. c \in 1..(2 * MaxCorr) /\ 0 \in 0..MaxCorr /\ 0 \in 0..MaxSessions
      BY <1>1, CorrIs
    <3> QED
      BY ONLY <3>1, <3>2, SendIs
  <2>3. ThreadMove(c, "end", job[c].subs)
    BY <2>1, <2>2 DEF ThreadMove, Says, Silent, Answer
  <2> QED
    BY <2>3
<1>9. CASE FsEnd(c)
  <2>1. Step("done", job[c].subs) /\ ~Chat(c)
    BY <1>1, <1>9, GotoIs DEF FsEnd, Runs, Chat
  <2>2. PICK m \in Message : /\ toTui' = Append(toTui, m)
                             /\ m.type = "WORKER_END" /\ m.corr = c
    <3>1. Send("WORKER_END", c, 0, 0)
      BY <1>9 DEF FsEnd
    <3>2. c \in 1..(2 * MaxCorr) /\ 0 \in 0..MaxCorr /\ 0 \in 0..MaxSessions
      BY <1>1, CorrIs
    <3> QED
      BY ONLY <3>1, <3>2, SendIs
  <2>3. ThreadMove(c, "done", job[c].subs)
    BY <2>1, <2>2 DEF ThreadMove, Says, Silent, Answer
  <2> QED
    BY <2>3
<1> QED
  BY <1>2, <1>3, <1>4, <1>5, <1>6, <1>7, <1>8, <1>9 DEF ThreadStep
\* The user's local steps, and no step at all.
LEMMA SameTuiIs ==
    ASSUME TypesInv, UNCHANGED <<sessions, next_id>>,
           active' \in 1..Count, sidebar_sel' \in 1..Count, focus' \in {"list", "input"}
    PROVE  TuiInv' /\ Stable /\ Count' = Count
<1>1. TuiInv /\ Count \in Nat /\ next_id \in Nat
  BY TypesInvIs, Basics
<1>2. Count' = Count
  BY DEF Count
<1>3. TuiTypes'
  BY <1>1 DEF TuiInv, TuiTypes
<1>4. SelectionValid'
  BY <1>2 DEF SelectionValid
<1> QED
  BY <1>1, <1>2, <1>3, <1>4 DEF TuiInv, Stable

LEMMA CommandIs ==
    ASSUME TypesInv, Command
    PROVE  cmds' \in 0..MaxCmds
BY Bounds DEF Command, TypesInv, TypeOK

LEMMA NoteIs ==
    ASSUME TypesInv, Note
    PROVE  /\ Local /\ Edited(active, Append(ChatOf(active), M("system", 0)))
           /\ upset' = Noted(active)
<1>1. Edited(active, Append(ChatOf(active), M("system", 0)))
  BY WithMsgIs DEF Note
<1>2. upset \subseteq upset' /\ upset' \subseteq {"deleted", "noted", "overflow"}
  BY NotedIs, UpsetType DEF Note
<1>3. cmds' \in 0..MaxCmds
  BY CommandIs DEF Note
<1> QED
  BY <1>1, <1>2, <1>3 DEF Note, Local

LEMMA ClearIs ==
    ASSUME TypesInv, Clear
    PROVE  Local /\ Edited(active, <<>>) /\ upset' = upset
<1>1. Edited(active, <<>>)
  BY Basics, EmptySeq DEF Clear, Edited
<1>2. cmds' \in 0..MaxCmds
  BY CommandIs DEF Clear
<1> QED
  BY <1>1, <1>2, UpsetType DEF Clear, Local

LEMMA RenameIs ==
    ASSUME TypesInv, Rename
    PROVE  /\ Local /\ upset' = upset /\ TuiInv' /\ Stable /\ Count' = Count
           /\ \A j \in 1..Count : /\ sessions'[j].topic \in {0, sessions[j].topic}
                                  /\ sessions'[j].chat = sessions[j].chat
<1>1. active \in 1..Count /\ 0 \in 0..MaxCorr
  BY Basics, Bounds
<1>2. /\ sessions' = [sessions EXCEPT ![active].name = "user", ![active].topic = 0]
      /\ UNCHANGED <<listVars, next_id>>
  BY DEF Rename
<1>3. /\ TuiInv' /\ Stable /\ Count' = Count
      /\ \A j \in 1..Count : /\ sessions'[j].topic = IF j = active THEN 0 ELSE sessions[j].topic
                             /\ sessions'[j].chat = sessions[j].chat
  BY <1>1, <1>2, NamedIs
<1>4. cmds' \in 0..MaxCmds
  BY CommandIs DEF Rename
<1>5. Local /\ upset' = upset
  BY <1>4, UpsetType DEF Rename, Local
<1> QED
  BY <1>3, <1>5

LEMMA NewLocal ==
    ASSUME TypesInv, NEW name \in {"default", "user"}, New(name)
    PROVE  Local /\ upset' = upset
<1>1. cmds' \in 0..MaxCmds
  <2>1. cmds \in 0..MaxCmds
    BY DEF TypesInv, TypeOK
  <2>2. CASE UNCHANGED cmds
    BY <2>1, <2>2
  <2>3. CASE Command
    BY <2>3, CommandIs
  <2> QED
    BY <2>2, <2>3 DEF New
<1>2. UNCHANGED <<in_flight, next_corr, connected, toBackend, toTui, job, asked, answered,
                  ended, upset>>
  BY DEF New
<1> QED
  BY <1>1, <1>2, UpsetType DEF Local

LEMMA DeleteLocal ==
    ASSUME TypesInv, Delete
    PROVE  Local /\ upset' = IF Quiet THEN upset ELSE upset \cup {"deleted"}
<1>1. /\ UNCHANGED <<in_flight, next_corr, connected, toBackend, toTui, job, asked, answered,
                     ended, cmds>>
      /\ upset' = IF Quiet THEN upset ELSE upset \cup {"deleted"}
  BY DEF Delete
<1>2. cmds \in 0..MaxCmds
  BY DEF TypesInv, TypeOK
<1> QED
  BY <1>1, <1>2, UpsetType DEF Local

LEMMA ListIs ==
    ASSUME TypesInv, OpenList \/ MoveSelection \/ Select \/ UNCHANGED vars
    PROVE  /\ Local /\ UNCHANGED <<sessions, upset>>
           /\ TuiInv' /\ Stable /\ Count' = Count
<1>1. active \in 1..Count /\ sidebar_sel \in 1..Count
  BY Basics
<1>2. /\ UNCHANGED <<sessions, next_id, in_flight, next_corr, connected, toBackend, toTui, job,
                     asked, answered, ended, cmds, upset>>
      /\ active' \in {active, sidebar_sel}
      /\ sidebar_sel' \in {sidebar_sel - 1, sidebar_sel, sidebar_sel + 1}
      /\ sidebar_sel' \in 1..Count \/ sidebar_sel' = sidebar_sel
      /\ focus' \in {focus, "list", "input"}
  <2>1. CASE OpenList
    BY <2>1 DEF OpenList, histVars
  <2>2. CASE MoveSelection
    BY <2>2 DEF MoveSelection, histVars
  <2>3. CASE Select
    BY <2>3 DEF Select, histVars
  <2>4. CASE UNCHANGED vars
    BY <2>4 DEF vars, tuiVars, listVars, histVars
  <2> QED
    BY <2>1, <2>2, <2>3, <2>4
<1>3. focus \in {"list", "input"} /\ cmds \in 0..MaxCmds
  BY DEF TypesInv, TypeOK
<1>4. TuiInv' /\ Stable /\ Count' = Count
  BY <1>1, <1>2, <1>3, SameTuiIs
<1> QED
  BY <1>2, <1>3, <1>4, UpsetType DEF Local
-----------------------------------------------------------------------------
(* The types are kept.                                                     *)

LEMMA TableWithType ==
    ASSUME TypesInv, NEW c \in 1..(2 * MaxCorr), NEW d \in {0, 1}, NEW i \in 0..MaxSessions,
           in_flight' = TableWith(c, d, i)
    PROVE  TableType'
<1> DEFINE e == [corr |-> c, depth |-> d, sidx |-> i]
           E == [corr : 0..(2 * MaxCorr), depth : {0, 1}, sidx : 0..MaxSessions]
<1>1. in_flight \in [Slots -> E]
  BY DEF TypesInv, TypeOK
<1>2. e \in E
  BY Bounds
<1> HIDE DEF e, E
<1>3. CASE TableWith(c, d, i) = in_flight
  BY <1>1, <1>3 DEF TableType, E
<1>4. ASSUME NEW k \in Slots, TableWith(c, d, i) = [in_flight EXCEPT ![k] = e]
      PROVE  TableType'
  <2>1. in_flight' \in [Slots -> E]
    BY <1>1, <1>2, <1>4
  <2> QED
    BY <2>1 DEF TableType, E
<1> QED
  BY <1>3, <1>4, TableWithIs DEF e

LEMMA RemovedType ==
    ASSUME TypesInv, NEW c, c # 0, in_flight' = Removed(c)
    PROVE  TableType'
<1> DEFINE E == [corr : 0..(2 * MaxCorr), depth : {0, 1}, sidx : 0..MaxSessions]
<1>1. in_flight \in [Slots -> E]
  BY DEF TypesInv, TypeOK
<1>2. FreeSlot \in E
  BY Bounds DEF FreeSlot
<1> HIDE DEF E
<1>3. CASE Removed(c) = in_flight
  BY <1>1, <1>3 DEF TableType, E
<1>4. ASSUME NEW k \in Slots, Removed(c) = [in_flight EXCEPT ![k] = FreeSlot]
      PROVE  TableType'
  <2>1. in_flight' \in [Slots -> E]
    BY <1>1, <1>2, <1>4
  <2> QED
    BY <2>1 DEF TableType, E
<1> QED
  BY <1>3, <1>4, RemovedIs

JobRec == [pc : {"none", "queued", "run", "loop", "sub", "name", "reply", "end", "done"},
           kind : Kinds, sidx : 0..MaxSessions, first : BOOLEAN, subs : 0..MaxSubs]

LEMMA JobSet ==
    ASSUME TypesInv, NEW c \in Corrs, NEW r \in JobRec, job' = [job EXCEPT ![c] = r]
    PROVE  JobType' /\ \A d \in Corrs : job'[d] = IF d = c THEN r ELSE job[d]
<1>1. job \in [Corrs -> JobRec]
  BY DEF TypesInv, TypeOK, JobRec
<1>2. job' \in [Corrs -> JobRec]
  BY <1>1
<1> QED
  BY <1>1, <1>2 DEF JobType, JobRec

LEMMA TypesLocal ==
    ASSUME TypesInv, Local, TuiInv', next_id <= next_id', next_id' \in Nat
    PROVE  TypesInv'
<1>1. /\ TableType /\ JobType /\ OtherTypes
      /\ \A c \in 1..Len(asked) : asked[c] < next_id
  BY TypesInvIs
<1>2. TableType' /\ JobType' /\ OtherTypes'
  BY <1>1 DEF Local, TableType, JobType, OtherTypes
<1>3. \A c \in 1..Len(asked') : asked'[c] < next_id'
  <2>1. (\A c \in 1..Len(asked) : asked[c] \in Nat) /\ asked' = asked /\ next_id \in Nat
    BY SMTT(30), Basics, Bounds DEF Local
  <2> QED
    BY <1>1, <2>1
<1> QED
  BY <1>2, <1>3, TypesNext

LEMMA StableNext ==
    ASSUME TypesInv, TuiInv', Stable
    PROVE  next_id <= next_id' /\ next_id' \in Nat
BY Bounds DEF TuiInv, TuiTypes, Stable

\* The job of the request that is asked, and the request.
LEMMA AskedIs ==
    ASSUME TypesInv, NEW kind, NEW f, NEW chat, Asked(kind, f, chat)
    PROVE  /\ TuiInv' /\ Stable /\ Count' = Count /\ next_id' = next_id
           /\ JobType'
           /\ \A d \in Corrs : d # next_corr => job'[d] = job[d]
           /\ /\ job'[next_corr].pc = "queued" /\ job'[next_corr].kind = kind
              /\ job'[next_corr].sidx = job[next_corr].sidx
           /\ asked' \in Seq(1..MaxIds) /\ Len(asked') = next_corr
           /\ \A c \in 1..(next_corr - 1) : asked'[c] = asked[c]
           /\ asked'[next_corr] = sessions[active].id
           /\ toBackend' \in Seq(Request) /\ Len(toBackend) \in Nat
           /\ Len(toBackend') = Len(toBackend) + 1
           /\ \A j \in 1..Len(toBackend) : toBackend'[j] = toBackend[j]
           /\ toBackend'[Len(toBackend) + 1] =
                [corr |-> next_corr, kind |-> kind, sidx |-> active, first |-> f]
           /\ \A j \in 1..(Len(toBackend) + 1) :
                j \in 1..Len(toBackend) \/ j = Len(toBackend) + 1
<1>1. next_corr \in Corrs /\ kind \in Kinds /\ f \in BOOLEAN /\ active \in 1..MaxSessions
      /\ active \in 1..Count /\ Len(asked) = next_corr - 1 /\ next_corr \in Nat
  <2>1. active \in 1..Count /\ Count \in 1..MaxSessions
        /\ Len(asked) = next_corr - 1 /\ next_corr \in Nat
    BY Basics
  <2> QED
    BY <2>1, Bounds DEF Asked
<1>2. TuiInv' /\ Stable /\ Count' = Count
  BY EditedIs DEF Asked
<1>3. next_id' = next_id
  BY DEF Asked, Edited
<1>4. /\ JobType' /\ \A d \in Corrs : d # next_corr => job'[d] = job[d]
      /\ job'[next_corr].pc = "queued" /\ job'[next_corr].kind = kind
      /\ job'[next_corr].sidx = job[next_corr].sidx
  <2> DEFINE r == [[job[next_corr] EXCEPT !.pc = "queued"] EXCEPT !.kind = kind]
  <2>1. job \in [Corrs -> JobRec]
    BY DEF TypesInv, TypeOK, JobRec
  <2>2. job[next_corr] \in JobRec
    BY <1>1, <2>1
  <2>3. /\ [job[next_corr] EXCEPT !.pc = "queued"] \in JobRec
        /\ [job[next_corr] EXCEPT !.pc = "queued"].pc = "queued"
        /\ [job[next_corr] EXCEPT !.pc = "queued"].sidx = job[next_corr].sidx
    BY ONLY <2>2 DEF JobRec
  <2>4. r \in JobRec /\ r.pc = "queued" /\ r.kind = kind /\ r.sidx = job[next_corr].sidx
    BY ONLY <1>1, <2>3 DEF JobRec
  <2>5. job' = [job EXCEPT ![next_corr] = r]
    BY <1>1, <2>1 DEF Asked
  <2> HIDE DEF r
  <2>6. JobType' /\ \A d \in Corrs : job'[d] = IF d = next_corr THEN r ELSE job[d]
    BY <1>1, <2>4, <2>5, JobSet
  <2> QED
    BY <1>1, <2>4, <2>6
<1>5. /\ asked' \in Seq(1..MaxIds) /\ Len(asked') = next_corr
      /\ \A c \in 1..(next_corr - 1) : asked'[c] = asked[c]
      /\ asked'[next_corr] = sessions[active].id
  <2>1. asked \in Seq(1..MaxIds) /\ sessions[active].id \in 1..MaxIds
    BY <1>1, Basics DEF TypesInv, TypeOK
  <2>2. asked' = Append(asked, sessions[active].id)
    BY DEF Asked
  <2>3. /\ asked' \in Seq(1..MaxIds) /\ Len(asked') = Len(asked) + 1
        /\ \A c \in 1..Len(asked) : asked'[c] = asked[c]
        /\ asked'[Len(asked) + 1] = sessions[active].id
    BY ONLY <2>1, <2>2, AppendIs
  <2> QED
    BY <1>1, <2>3
<1>6. /\ toBackend' \in Seq(Request) /\ Len(toBackend) \in Nat
      /\ Len(toBackend') = Len(toBackend) + 1
      /\ \A j \in 1..Len(toBackend) : toBackend'[j] = toBackend[j]
      /\ toBackend'[Len(toBackend) + 1] =
           [corr |-> next_corr, kind |-> kind, sidx |-> active, first |-> f]
      /\ \A j \in 1..(Len(toBackend) + 1) :
           j \in 1..Len(toBackend) \/ j = Len(toBackend) + 1
  <2>1. toBackend \in Seq(Request)
    BY DEF TypesInv, TypeOK
  <2> DEFINE m == [corr |-> next_corr, kind |-> kind, sidx |-> active, first |-> f]
  <2>2. m \in Request
    BY <1>1 DEF Request
  <2>3. toBackend' = Append(toBackend, m)
    BY DEF Asked
  <2> HIDE DEF m
  <2>4. /\ toBackend' \in Seq(Request) /\ Len(toBackend) \in Nat
        /\ Len(toBackend') = Len(toBackend) + 1
        /\ \A j \in 1..Len(toBackend) : toBackend'[j] = toBackend[j]
        /\ toBackend'[Len(toBackend) + 1] = m
        /\ \A j \in 1..(Len(toBackend) + 1) :
             j \in 1..Len(toBackend) \/ j = Len(toBackend) + 1
    BY ONLY <2>1, <2>2, <2>3, AppendIs
  <2> QED
    BY <2>4 DEF m
<1> QED
  BY <1>2, <1>3, <1>4, <1>5, <1>6

LEMMA TypesAsked ==
    ASSUME TypesInv, NEW kind, NEW f, NEW chat, Asked(kind, f, chat)
    PROVE  TypesInv'
<1>1. /\ TuiInv' /\ JobType' /\ next_id' = next_id
      /\ toBackend' \in Seq(Request)
      /\ asked' \in Seq(1..MaxIds) /\ Len(asked') = next_corr
      /\ \A c \in 1..(next_corr - 1) : asked'[c] = asked[c]
      /\ asked'[next_corr] = sessions[active].id
  BY AskedIs
<1>2. next_corr \in Corrs /\ active \in 0..MaxSessions /\ next_corr \in 1..(2 * MaxCorr)
      /\ active \in 1..Count
  <2>1. active \in 1..Count /\ Count \in 1..MaxSessions
    BY Basics
  <2> QED
    BY SMTT(30), <2>1, Bounds DEF Asked, Corrs
<1>3. TableType'
  BY <1>2, TableWithType DEF Asked
<1>4. OtherTypes'
  <2>1. OtherTypes
    BY TypesInvIs
  <2>2. upset' \subseteq {"deleted", "noted", "overflow"}
    BY <2>1 DEF Asked, OtherTypes
  <2>3. next_corr' = next_corr + 1 /\ next_corr' \in 1..(MaxCorr + 1)
    BY SMTT(30), <1>2, Bounds DEF Asked, Corrs
  <2>4. UNCHANGED <<connected, toTui, answered, ended, cmds>>
    BY DEF Asked
  <2>5. Len(asked') = next_corr' - 1
    BY <1>1, <1>2, <2>3, Bounds DEF Corrs
  <2> QED
    BY <1>1, <2>1, <2>2, <2>3, <2>4, <2>5 DEF OtherTypes
<1>5. \A c \in 1..Len(asked') : asked'[c] < next_id'
  <2>1. \A c \in 1..(next_corr - 1) : asked[c] < next_id
    BY Basics DEF TypesInv
  <2>2. sessions[active].id < next_id
    BY <1>2 DEF TypesInv
  <2>3. \A c \in 1..next_corr : c \in 1..(next_corr - 1) \/ c = next_corr
    BY <1>2, Bounds DEF Corrs
  <2> QED
    BY <1>1, <2>1, <2>2, <2>3
<1> QED
  BY <1>1, <1>3, <1>4, <1>5, TypesNext

\* The queue without its first message.
LEMMA ReceivedTypes ==
    ASSUME TypesInv, MsgsInv, NEW m, Received(m), answered' \subseteq Corrs, ended' \subseteq Corrs
    PROVE  /\ OtherTypes' /\ JobType' /\ UNCHANGED asked
           /\ m \in Message /\ MsgOK(m) /\ m = toTui[1] /\ m.corr # 0
           /\ m.corr \in 1..(2 * MaxCorr)
           /\ Len(toTui') = Len(toTui) - 1 /\ Len(toTui) \in Nat \ {0}
           /\ \A j \in 1..Len(toTui') : toTui'[j] = toTui[j + 1] /\ j + 1 \in 2..Len(toTui)
           /\ \A j \in 2..Len(toTui) : j - 1 \in 1..Len(toTui') /\ toTui'[j - 1] = toTui[j]
<1>1. toTui \in Seq(Message) /\ toTui # <<>> /\ toTui' = Tail(toTui) /\ m = Head(toTui)
  BY DEF TypesInv, TypeOK, Received
<1>2. /\ Len(Tail(toTui)) = Len(toTui) - 1 /\ Len(toTui) \in Nat \ {0}
      /\ Tail(toTui) \in Seq(Message)
      /\ \A j \in 1..Len(Tail(toTui)) : Tail(toTui)[j] = toTui[j + 1] /\ j + 1 \in 2..Len(toTui)
      /\ \A j \in 2..Len(toTui) : j - 1 \in 1..Len(Tail(toTui)) /\ Tail(toTui)[j - 1] = toTui[j]
  BY <1>1, TailIs
<1>3. /\ m \in Message /\ MsgOK(m) /\ m = toTui[1] /\ m.corr # 0
      /\ m.corr \in 1..(2 * MaxCorr)
  BY <1>1, HeadIs
<1>4. OtherTypes' /\ JobType'
  <2>1. OtherTypes /\ JobType
    BY TypesInvIs
  <2> QED
    BY <1>1, <1>2, <2>1 DEF Received, OtherTypes, JobType
<1> QED
  BY <1>1, <1>2, <1>3, <1>4 DEF Received
LEMMA AskedNext ==
    ASSUME TypesInv, UNCHANGED asked, next_id <= next_id', next_id' \in Nat
    PROVE  \A c \in 1..Len(asked') : asked'[c] < next_id'
<1>1. \A c \in 1..Len(asked) : asked[c] \in Nat /\ asked[c] < next_id
  BY SMTT(30), Basics, Bounds DEF TypesInv
<1>2. next_id \in Nat
  BY Basics
<1> QED
  BY <1>1, <1>2

LEMMA TypesAnswer ==
    ASSUME TypesInv, MsgsInv, NEW m, NEW i, NEW chat, GotAnswer(m, i, chat)
    PROVE  TypesInv' /\ m.corr \in Corrs /\ Stable /\ Count' = Count
<1>1. TuiInv' /\ Stable /\ Count' = Count
  BY EditedIs DEF GotAnswer
<1>2. Received(m) /\ Answer(m) /\ ended' \subseteq Corrs
  BY DEF GotAnswer, TypesInv, TypeOK
<1>3. MsgOK(m) /\ m.corr # 0
  BY <1>2, HeadIs DEF Received
<1>4. m.corr \in Corrs
  BY <1>2, <1>3 DEF MsgOK, MsgFits
<1>5. answered' \subseteq Corrs
  BY <1>4 DEF GotAnswer, TypesInv, TypeOK
<1>6. OtherTypes' /\ JobType' /\ UNCHANGED asked
  BY <1>2, <1>5, ReceivedTypes
<1>7. TableType'
  BY <1>3, RemovedType DEF GotAnswer
<1> QED
  BY <1>1, <1>4, <1>6, <1>7, StableNext, AskedNext, TypesNext

LEMMA SameSelection ==
    ASSUME TypesInv, UNCHANGED <<sessions, listVars, next_id>>
    PROVE  TuiInv' /\ Stable /\ Count' = Count
<1>1. UNCHANGED <<active, sidebar_sel, focus>>
  BY DEF listVars
<1>2. active \in 1..Count /\ sidebar_sel \in 1..Count /\ focus \in {"list", "input"}
  BY Basics DEF TypesInv, TypeOK
<1> QED
  BY <1>1, <1>2, SameTuiIs

LEMMA TypesStart ==
    ASSUME TypesInv, MsgsInv, NEW m, NEW i, GotStart(m, i)
    PROVE  TypesInv' /\ Stable /\ Count' = Count
<1>1. TuiInv' /\ Stable /\ Count' = Count
  BY SameSelection DEF GotStart
<1>2. Received(m) /\ answered' \subseteq Corrs /\ ended' \subseteq Corrs
  BY DEF GotStart, TypesInv, TypeOK
<1>3. m.corr \in 1..(2 * MaxCorr)
  BY <1>2, HeadIs DEF Received
<1>4. OtherTypes' /\ JobType' /\ UNCHANGED asked
  BY <1>2, ReceivedTypes
<1>5. i \in 0..MaxSessions /\ in_flight' = TableWith(m.corr, 1, i)
  BY Bounds DEF GotStart
<1>6. TableType'
  BY <1>3, <1>5, TableWithType
<1> QED
  BY <1>1, <1>4, <1>6, StableNext, AskedNext, TypesNext

LEMMA TypesEnd ==
    ASSUME TypesInv, MsgsInv, NEW m, GotEnd(m)
    PROVE  TypesInv' /\ Stable /\ Count' = Count
<1>1. TuiInv' /\ Stable /\ Count' = Count
  BY SameSelection DEF GotEnd
<1>2. Received(m) /\ answered' \subseteq Corrs /\ ended' \subseteq Corrs
  BY DEF GotEnd, TypesInv, TypeOK
<1>3. m.corr # 0
  BY <1>2, HeadIs DEF Received
<1>4. OtherTypes' /\ JobType' /\ UNCHANGED asked
  BY <1>2, ReceivedTypes
<1>5. TableType'
  BY <1>3, RemovedType DEF GotEnd
<1> QED
  BY <1>1, <1>4, <1>5, StableNext, AskedNext, TypesNext

LEMMA TypesOther ==
    ASSUME TypesInv, MsgsInv, NEW m, GotOther(m), TuiInv', Stable
    PROVE  TypesInv'
<1>1. Received(m) /\ answered' \subseteq Corrs /\ ended' \subseteq Corrs
  BY DEF GotOther, TypesInv, TypeOK
<1>2. OtherTypes' /\ JobType' /\ UNCHANGED asked
  BY <1>1, ReceivedTypes
<1>3. TableType'
  <2>1. TableType
    BY TypesInvIs
  <2> QED
    BY <2>1 DEF TableType, GotOther
<1> QED
  BY <1>2, <1>3, StableNext, AskedNext, TypesNext

LEMMA DisconnectIs ==
    ASSUME TypesInv, Disconnect
    PROVE  /\ TypesInv' /\ Stable /\ Count' = Count
           /\ toBackend' = <<>> /\ toTui' = <<>> /\ connected' = FALSE
           /\ \A k \in Slots : in_flight'[k] = FreeSlot
           /\ \A c \in Corrs : /\ job'[c].kind = job[c].kind /\ job'[c].sidx = job[c].sidx
                               /\ job'[c].pc = IF job[c].pc = "none" THEN "none" ELSE "done"
           /\ UNCHANGED <<sessions, listVars, next_id, next_corr, histVars>>
<1>1. /\ toBackend' = <<>> /\ toTui' = <<>> /\ connected' = FALSE
      /\ in_flight' = [k \in Slots |-> FreeSlot]
      /\ UNCHANGED <<sessions, listVars, next_id, next_corr, histVars>>
  BY DEF Disconnect
<1>2. TuiInv' /\ Stable /\ Count' = Count
  BY <1>1, SameSelection
<1>3. FreeSlot \in [corr : 0..(2 * MaxCorr), depth : {0, 1}, sidx : 0..MaxSessions]
  BY Bounds DEF FreeSlot
<1>4. TableType'
  BY <1>1, <1>3 DEF TableType
<1>5. \A c \in Corrs : job[c] \in JobRec
  BY DEF TypesInv, TypeOK, JobRec
<1> DEFINE done(c) == IF job[c].pc = "none" THEN job[c] ELSE [job[c] EXCEPT !.pc = "done"]
<1>6. job' = [c \in Corrs |-> done(c)]
  BY DEF Disconnect
<1>7. ASSUME NEW c \in Corrs
      PROVE  /\ done(c) \in JobRec /\ done(c).kind = job[c].kind /\ done(c).sidx = job[c].sidx
             /\ done(c).pc = IF job[c].pc = "none" THEN "none" ELSE "done"
  <2>1. job[c] \in JobRec
    BY <1>5
  <2>2. LET r == [job[c] EXCEPT !.pc = "done"]
        IN  r \in JobRec /\ r.kind = job[c].kind /\ r.sidx = job[c].sidx /\ r.pc = "done"
    BY ONLY <2>1 DEF JobRec
  <2> QED
    BY <2>1, <2>2
<1> HIDE DEF done
<1>8. /\ job' \in [Corrs -> JobRec]
      /\ \A c \in Corrs : job'[c] = done(c)
  BY <1>6, <1>7
<1>9. JobType'
  BY <1>8 DEF JobType, JobRec
<1>10. OtherTypes'
  <2>1. OtherTypes
    BY TypesInvIs
  <2> QED
    BY <1>1, <2>1, EmptySeq DEF OtherTypes, histVars
<1>11. UNCHANGED asked
  BY <1>1 DEF histVars
<1>12. TypesInv'
  BY <1>2, <1>4, <1>9, <1>10, <1>11, StableNext, AskedNext, TypesNext
<1>13. \A k \in Slots : in_flight'[k] = FreeSlot
  BY <1>1
<1> QED
  BY <1>1, <1>2, <1>7, <1>8, <1>12, <1>13

\* The request of the first message of the queue begins.
LEMMA DispatchIs ==
    ASSUME TypesInv, Dispatch
    PROVE  LET m == toBackend[1]
           IN  /\ TypesInv' /\ Stable /\ Count' = Count
               /\ UNCHANGED <<toTui, backendOnly>>
               /\ m \in Request /\ m.corr \in Corrs /\ m.sidx # 0 /\ 1 \in 1..Len(toBackend)
               /\ job'[m.corr].pc = "run" /\ job'[m.corr].kind = m.kind
               /\ job'[m.corr].sidx = m.sidx
               /\ \A d \in Corrs : d # m.corr => job'[d] = job[d]
               /\ Len(toBackend') = Len(toBackend) - 1 /\ Len(toBackend) \in Nat \ {0}
               /\ \A j \in 1..Len(toBackend') :
                    toBackend'[j] = toBackend[j + 1] /\ j + 1 \in 2..Len(toBackend)
<1> DEFINE m == toBackend[1]
           r == [pc |-> "run", kind |-> m.kind, sidx |-> m.sidx, first |-> m.first, subs |-> 0]
<1>1. /\ toBackend \in Seq(Request) /\ toBackend # <<>> /\ toBackend' = Tail(toBackend)
      /\ UNCHANGED <<toTui, backendOnly>>
  BY DEF TypesInv, TypeOK, Dispatch
<1>2. /\ 1 \in 1..Len(toBackend) /\ m \in Request /\ Head(toBackend) = m
      /\ toBackend' \in Seq(Request) /\ Len(toBackend) \in Nat \ {0}
      /\ Len(toBackend') = Len(toBackend) - 1
      /\ \A j \in 1..Len(toBackend') :
           toBackend'[j] = toBackend[j + 1] /\ j + 1 \in 2..Len(toBackend)
  BY <1>1, TailIs
<1>3. m.corr \in Corrs /\ m.sidx \in 1..MaxSessions /\ m.kind \in Kinds /\ m.first \in BOOLEAN
  BY <1>2 DEF Request
<1>4. r \in JobRec /\ m.sidx # 0
  BY <1>3, Bounds DEF JobRec
<1>5. job' = [job EXCEPT ![m.corr] = r]
  BY <1>2 DEF Dispatch
<1>6. r.pc = "run" /\ r.kind = m.kind /\ r.sidx = m.sidx
  OBVIOUS
<1> HIDE DEF r, m
<1>7. JobType' /\ \A d \in Corrs : job'[d] = IF d = m.corr THEN r ELSE job[d]
  BY <1>3, <1>4, <1>5, JobSet
<1>8. UNCHANGED <<sessions, listVars, next_id, in_flight, next_corr, connected, asked, answered,
                  ended, cmds, upset, toTui>>
  BY <1>1 DEF backendOnly, tuiVars, histVars
<1>9. TuiInv' /\ Stable /\ Count' = Count
  BY <1>8, SameSelection
<1>10. TableType' /\ OtherTypes'
  <2>1. TableType /\ OtherTypes
    BY TypesInvIs
  <2> QED
    BY <1>2, <1>8, <2>1 DEF TableType, OtherTypes
<1>11. TypesInv'
  BY <1>7, <1>8, <1>9, <1>10, StableNext, AskedNext, TypesNext
<1> QED
  BY <1>1, <1>2, <1>3, <1>4, <1>6, <1>7, <1>9, <1>11 DEF m

\* The job of the thread that moves, and the message it may send.
LEMMA ThreadMoveIs ==
    ASSUME TypesInv, NEW c \in Corrs, NEW to, NEW subs, ThreadMove(c, to, subs)
    PROVE  /\ TypesInv' /\ Stable /\ Count' = Count
           /\ UNCHANGED <<sessions, listVars, next_id, in_flight, next_corr, connected, asked,
                          answered, ended, cmds, upset, toBackend>>
           /\ job'[c].pc = to /\ job'[c].kind = job[c].kind /\ job'[c].sidx = job[c].sidx
           /\ \A d \in Corrs : d # c => job'[d] = job[d]
           /\ \/ toTui' = toTui /\ Silent(c, to)
              \/ \E m \in Message :
                   /\ Says(c, to, m) /\ Len(toTui) \in Nat
                   /\ Len(toTui') = Len(toTui) + 1
                   /\ \A j \in 1..Len(toTui) : toTui'[j] = toTui[j]
                   /\ toTui'[Len(toTui) + 1] = m
                   /\ \A j \in 1..(Len(toTui) + 1) : j \in 1..Len(toTui) \/ j = Len(toTui) + 1
<1> DEFINE r == [pc |-> to, kind |-> job[c].kind, sidx |-> job[c].sidx,
                 first |-> job[c].first, subs |-> subs]
<1>1. /\ job' = [job EXCEPT ![c] = r] /\ subs \in 0..MaxSubs
      /\ to \in {"loop", "sub", "name", "reply", "end", "done"}
      /\ \/ toTui' = toTui /\ Silent(c, to)
         \/ \E m \in Message : toTui' = Append(toTui, m) /\ Says(c, to, m)
      /\ UNCHANGED <<toBackend, backendOnly>>
  BY DEF ThreadMove
<1>2. UNCHANGED <<sessions, listVars, next_id, in_flight, next_corr, connected, asked,
                  answered, ended, cmds, upset, toBackend>>
  BY <1>1 DEF backendOnly, tuiVars, histVars
<1>3. r \in JobRec /\ r.pc = to /\ r.kind = job[c].kind /\ r.sidx = job[c].sidx
  <2>1. job[c] \in JobRec
    BY DEF TypesInv, TypeOK, JobRec
  <2> QED
    BY ONLY <1>1, <2>1 DEF JobRec
<1> HIDE DEF r
<1>4. JobType' /\ \A d \in Corrs : job'[d] = IF d = c THEN r ELSE job[d]
  BY <1>1, <1>3, JobSet
<1>5. TuiInv' /\ Stable /\ Count' = Count
  BY <1>2, SameSelection
<1>6. toTui \in Seq(Message)
  BY DEF TypesInv, TypeOK
<1>7. ASSUME NEW m \in Message, toTui' = Append(toTui, m)
      PROVE  /\ toTui' \in Seq(Message) /\ Len(toTui) \in Nat
             /\ Len(toTui') = Len(toTui) + 1
             /\ \A j \in 1..Len(toTui) : toTui'[j] = toTui[j]
             /\ toTui'[Len(toTui) + 1] = m
             /\ \A j \in 1..(Len(toTui) + 1) : j \in 1..Len(toTui) \/ j = Len(toTui) + 1
  BY <1>6, <1>7, AppendIs
<1>8. toTui' \in Seq(Message)
  BY <1>1, <1>6, <1>7
<1>9. TableType' /\ OtherTypes'
  <2>1. TableType /\ OtherTypes
    BY TypesInvIs
  <2> QED
    BY <1>2, <1>8, <2>1 DEF TableType, OtherTypes
<1>10. TypesInv'
  BY <1>2, <1>4, <1>5, <1>9, StableNext, AskedNext, TypesNext
<1>11. \/ toTui' = toTui /\ Silent(c, to)
       \/ \E m \in Message :
            /\ Says(c, to, m) /\ Len(toTui) \in Nat
            /\ Len(toTui') = Len(toTui) + 1
            /\ \A j \in 1..Len(toTui) : toTui'[j] = toTui[j]
            /\ toTui'[Len(toTui) + 1] = m
            /\ \A j \in 1..(Len(toTui) + 1) : j \in 1..Len(toTui) \/ j = Len(toTui) + 1
  BY <1>1, <1>7
<1> QED
  BY <1>2, <1>3, <1>4, <1>5, <1>10, <1>11
-----------------------------------------------------------------------------
(* Threads, queues and the table.                                          *)

Core == JobInv /\ QueueInv /\ MsgsInv /\ DownInv /\ TableInv

LEMMA TurnIs ==
    ASSUME TypesInv, NEW c
    PROVE  /\ c \in Turns <=> c \in Corrs /\ c < next_corr /\ Chat(c)
           /\ c \in Corrs => c \in Nat
<1>1. c \in Corrs => c \in Nat /\ (c < next_corr <=> c \in 1..Len(asked))
  BY Basics
<1>2. c \in 1..Len(asked) => c \in Corrs
  BY Basics
<1> QED
  BY <1>1, <1>2 DEF Turns, Chat

LEMMA CoreLocal ==
    ASSUME TypesInv, Core, Local
    PROVE  Core'
<1>1. /\ UNCHANGED <<in_flight, next_corr, connected, toBackend, toTui, job, asked, answered>>
      /\ upset \subseteq upset'
  BY DEF Local
<1>2. JobInv'
  BY <1>1 DEF Core, JobInv, Chat, Sent, Runs
<1>3. QueueInv'
  BY <1>1 DEF Core, QueueInv
<1>4. MsgsInv'
  BY <1>1 DEF Core, MsgsInv, MsgOK, MsgFits, Answer, OnItsWay, Turns, Sent, Chat
<1>5. DownInv'
  BY <1>1 DEF Core, DownInv, Runs, Used
<1>6. TableInv'
  BY <1>1 DEF Core, TableInv, TurnEntry, Chat, Turns
<1> QED
  BY <1>2, <1>3, <1>4, <1>5, <1>6 DEF Core

LEMMA CoreAsked ==
    ASSUME TypesInv, Core, NEW kind, NEW f, NEW chat, Asked(kind, f, chat)
    PROVE  Core'
<1> PICK n : n = next_corr
  OBVIOUS
<1>1. /\ \A d \in Corrs : d # n => job'[d] = job[d]
      /\ job'[n].pc = "queued" /\ job'[n].kind = kind
      /\ Len(toBackend) \in Nat
      /\ Len(toBackend') = Len(toBackend) + 1
      /\ \A j \in 1..Len(toBackend) : toBackend'[j] = toBackend[j]
      /\ toBackend'[Len(toBackend) + 1] =
           [corr |-> n, kind |-> kind, sidx |-> active, first |-> f]
      /\ \A j \in 1..(Len(toBackend) + 1) :
           j \in 1..Len(toBackend) \/ j = Len(toBackend) + 1
  BY AskedIs
<1>2. n \in Corrs /\ connected /\ connected' /\ next_corr' = n + 1
      /\ in_flight' = TableWith(n, 0, active)
      /\ upset \cup Overflow \subseteq upset'
      /\ UNCHANGED <<toTui, answered>>
  BY DEF Asked
<1>3. /\ \A c \in Corrs : c \in Nat /\ (c < n + 1 <=> c < n \/ c = n)
                          /\ (c >= n <=> ~(c < n)) /\ (c >= n + 1 <=> ~(c < n + 1))
      /\ n \in Nat /\ ~(n < n)
  BY <1>2, Bounds DEF Corrs
<1>4. /\ job[n].pc = "none"
      /\ \A c \in Corrs : (c < n <=> job[c].pc # "none")
  BY <1>2, <1>3 DEF Core, JobInv
<1>5. \A c \in answered : c \in Corrs /\ c # n /\ job[c].kind = "chat" /\ job[c].pc \in {"name", "done"}
  BY <1>4 DEF Core, JobInv, Sent, Chat, TypesInv, TypeOK
<1>6. TypesInv'
  BY TypesAsked
<1>7. Len(asked') = n /\ Len(asked) = n - 1
  BY AskedIs, Basics
<1>8. \A c \in Turns' : c \in Corrs /\ job'[c].kind = "chat" /\ (c \in Turns \/ c = n)
  <2>1. ASSUME NEW c \in 1..n, job'[c].kind = "chat", c # n
        PROVE  c \in Corrs /\ c \in 1..(n - 1) /\ job[c].kind = "chat"
    <3>1. c \in Corrs /\ c \in 1..(n - 1)
      BY <1>2, <1>3, <2>1, Bounds DEF Corrs
    <3> QED
      BY <1>1, <2>1, <3>1
  <2> QED
    BY <1>2, <1>7, <2>1 DEF Turns
<1>9. JobInv'
  <2>1. ASSUME NEW c \in Corrs
        PROVE  /\ c >= next_corr' <=> job'[c].pc = "none"
               /\ job'[c].pc \in {"loop", "sub", "name"} => job'[c].kind = "chat"
               /\ job'[c].pc \in {"reply", "end"} => job'[c].kind # "chat"
               /\ job'[c].pc \notin {"none", "queued", "done"} => job'[c].sidx # 0
    <3>1. CASE c = n
      BY <1>1, <1>2, <1>3, <3>1
    <3>2. CASE c # n
      <4>1. job'[c] = job[c]
        BY <1>1, <3>2
      <4>2. c >= next_corr' <=> job'[c].pc = "none"
        BY <1>2, <1>3, <1>4, <3>2, <4>1
      <4>3. /\ job[c].pc \in {"loop", "sub", "name"} => job[c].kind = "chat"
            /\ job[c].pc \in {"reply", "end"} => job[c].kind # "chat"
            /\ job[c].pc \notin {"none", "queued", "done"} => job[c].sidx # 0
        BY DEF Core, JobInv, Chat, Runs
      <4> QED
        BY <4>1, <4>2, <4>3
    <3> QED
      BY <3>1, <3>2
  <2>2. \A c \in answered' : job'[c].kind = "chat" /\ job'[c].pc \in {"name", "done"}
    BY <1>1, <1>2, <1>5
  <2> QED
    BY <2>1, <2>2 DEF JobInv, Chat, Runs, Sent
<1>10. QueueInv'
  <2>1. \A j \in 1..Len(toBackend) :
          /\ job[toBackend[j].corr].pc = "queued"
          /\ job[toBackend[j].corr].kind = toBackend[j].kind
          /\ toBackend[j].corr \in Corrs /\ toBackend[j].corr # n
    <3>1. ASSUME NEW j \in 1..Len(toBackend)
          PROVE  toBackend[j].corr \in Corrs
      <4>1. toBackend[j] \in Request
        BY ElementOfSeq DEF TypesInv, TypeOK
      <4> QED
        BY <4>1 DEF Request
    <3> QED
      BY <1>4, <3>1 DEF Core, QueueInv
  <2>2. \A j \in 1..Len(toBackend') :
          \/ /\ j \in 1..Len(toBackend)
             /\ toBackend'[j] = toBackend[j]
          \/ /\ j = Len(toBackend) + 1
             /\ toBackend'[j].corr = n /\ toBackend'[j].kind = kind
    BY <1>1
  <2>3. \A j \in 1..Len(toBackend') :
          /\ job'[toBackend'[j].corr].pc = "queued"
          /\ job'[toBackend'[j].corr].kind = toBackend'[j].kind
    BY <1>1, <2>1, <2>2
  <2>4. \A i, j \in 1..Len(toBackend') : toBackend'[i].corr = toBackend'[j].corr => i = j
    BY <1>1, <2>1, <2>2 DEF Core, QueueInv
  <2> QED
    BY <2>3, <2>4 DEF QueueInv
<1>11. MsgsInv'
  <2>1. ASSUME NEW m, MsgFits(m, job, answered, n)
        PROVE  MsgFits(m, job', answered, n + 1)
    <3>1. \A c \in Corrs : c < n => c < n + 1 /\ c # n
      BY <1>3
    <3>2. \A c \in Corrs : job[c].pc \in {"name", "done"} => c # n
      BY <1>4
    <3> QED
      BY <1>1, <2>1, <3>1, <3>2 DEF MsgFits
  <2>2. \A j \in 1..Len(toTui') : MsgOK(toTui[j])'
    BY <1>2, <2>1 DEF Core, MsgsInv, MsgOK
  <2>3. ASSUME NEW c \in Turns' \ answered', job'[c].pc \in {"name", "done"}
        PROVE  \E j \in 1..Len(toTui) : Answer(toTui[j]) /\ toTui[j].corr = c
    <3>1. c # n
      BY <1>1, <2>3
    <3>2. c \in Turns \ answered /\ job[c].pc \in {"name", "done"}
      BY <1>1, <1>2, <1>8, <2>3, <3>1
    <3>3. OnItsWay(c)
      BY <1>2, <3>2 DEF Core, MsgsInv, Sent
    <3> QED
      BY <3>3 DEF OnItsWay
  <2>4. \A i, j \in 1..Len(toTui) :
          Answer(toTui[i]) /\ Answer(toTui[j]) /\ toTui[i].corr = toTui[j].corr => i = j
    BY DEF Core, MsgsInv
  <2> QED
    BY <1>2, <2>2, <2>3, <2>4 DEF MsgsInv, OnItsWay, Sent
<1>12. DownInv'
  BY <1>2 DEF DownInv
<1>13. TableInv'
  <2> DEFINE e == [corr |-> n, depth |-> 0, sidx |-> active]
  <2>1. \/ FreeSlots = {} /\ in_flight' = in_flight
        \/ \E k \in Slots : in_flight[k].corr = 0 /\ in_flight' = [in_flight EXCEPT ![k] = e]
    BY <1>2, TableWithIs
  <2>2. \A k \in Slots : in_flight[k].corr \in Corrs =>
          /\ in_flight[k].corr < n /\ in_flight[k].corr # n
          /\ job'[in_flight[k].corr] = job[in_flight[k].corr]
    BY <1>1, <1>3 DEF Core, TableInv
  <2>3. in_flight \in [Slots -> [corr : 0..(2 * MaxCorr), depth : {0, 1}, sidx : 0..MaxSessions]]
    BY DEF TypesInv, TypeOK
  <2>4. n \notin answered /\ 0 \notin Corrs
    BY <1>5, Bounds DEF Corrs
  <2>5. CASE FreeSlots = {} /\ in_flight' = in_flight
    <3>1. "overflow" \in upset'
      BY <1>2, <2>5 DEF Overflow
    <3>2. \A k \in Slots : in_flight[k].corr \in Corrs /\ job'[in_flight[k].corr].kind = "chat" =>
            TurnEntry(k)
      BY <2>2 DEF TurnEntry, Chat
    <3>3. \A k \in Slots : in_flight'[k].corr \in Corrs => in_flight'[k].corr < next_corr'
      BY <1>2, <1>3, <2>2, <2>5
    <3>4. \A k \in Slots : TurnEntry(k)' =>
            in_flight'[k].depth = 0 /\ in_flight'[k].corr \notin answered'
      BY <1>2, <2>5, <3>2 DEF Core, TableInv, TurnEntry, Chat
    <3>5. \A k, l \in Slots : TurnEntry(k)' /\ in_flight'[k].corr = in_flight'[l].corr => k = l
      BY <2>5, <3>2 DEF Core, TableInv, TurnEntry, Chat
    <3> QED
      BY <3>1, <3>3, <3>4, <3>5 DEF TableInv
  <2>6. ASSUME NEW k \in Slots, in_flight[k].corr = 0, in_flight' = [in_flight EXCEPT ![k] = e]
        PROVE  TableInv'
    <3>1. e.corr = n /\ e.depth = 0
      OBVIOUS
    <3> HIDE DEF e
    <3>2. \A l \in Slots : in_flight'[l] = IF l = k THEN e ELSE in_flight[l]
      BY <2>3, <2>6
    <3>3. \A l \in Slots : l # k /\ TurnEntry(l)' => TurnEntry(l)
      BY <2>2, <3>2 DEF TurnEntry, Chat
    <3>4. \A l \in Slots : in_flight'[l].corr \in Corrs => in_flight'[l].corr < next_corr'
      BY <1>2, <1>3, <2>2, <3>1, <3>2
    <3>5. \A l \in Slots : TurnEntry(l)' =>
            in_flight'[l].depth = 0 /\ in_flight'[l].corr \notin answered'
      BY <1>2, <2>4, <3>1, <3>2, <3>3 DEF Core, TableInv
    <3>6. ASSUME NEW a \in Slots, NEW b \in Slots, TurnEntry(a)',
                 in_flight'[a].corr = in_flight'[b].corr
          PROVE  a = b
      <4>1. in_flight'[a].corr \in Corrs
        BY <3>6 DEF TurnEntry
      <4>2. CASE a = k \/ b = k
        BY <2>2, <3>1, <3>2, <3>6, <4>1, <4>2
      <4>3. CASE a # k /\ b # k
        BY <3>2, <3>3, <3>6, <4>3 DEF Core, TableInv
      <4> QED
        BY <4>2, <4>3
    <3>7. ASSUME "overflow" \notin upset', NEW c \in Turns' \ answered'
          PROVE  \E l \in Slots : in_flight'[l].corr = c
      <4>1. CASE c = n
        BY <3>1, <3>2, <4>1
      <4>2. CASE c # n
        <5>1. c \in Turns \ answered /\ "overflow" \notin upset /\ c \in Corrs
          BY <1>2, <1>8, <3>7, <4>2
        <5>2. PICK l \in Slots : in_flight[l].corr = c
          BY <1>2, <5>1 DEF Core, TableInv
        <5>3. l # k
          BY <2>4, <2>6, <5>1, <5>2
        <5> QED
          BY <3>2, <5>2, <5>3
      <4> QED
        BY <4>1, <4>2
    <3> QED
      BY <3>4, <3>5, <3>6, <3>7 DEF TableInv
  <2> QED
    BY <2>1, <2>5, <2>6
<1> QED
  BY <1>9, <1>10, <1>11, <1>12, <1>13 DEF Core
\* What is left of the queue, the threads and the requests, when the TUI takes
\* a message that answers no turn.
LEMMA CoreReceived ==
    ASSUME TypesInv, Core, NEW m, Received(m), UNCHANGED answered, ~Answer(m), OtherTypes',
           UNCHANGED asked
    PROVE  JobInv' /\ QueueInv' /\ MsgsInv' /\ DownInv'
<1>1. /\ m = toTui[1] /\ Len(toTui') = Len(toTui) - 1 /\ Len(toTui) \in Nat \ {0}
      /\ \A j \in 1..Len(toTui') : toTui'[j] = toTui[j + 1] /\ j + 1 \in 1..Len(toTui)
      /\ \A j \in 2..Len(toTui) : j - 1 \in 1..Len(toTui') /\ toTui'[j - 1] = toTui[j]
      /\ \A j \in 1..Len(toTui) : j = 1 \/ j \in 2..Len(toTui)
  <2>1. answered' \subseteq Corrs /\ ended' \subseteq Corrs
    BY DEF OtherTypes
  <2>2. /\ m = toTui[1] /\ Len(toTui') = Len(toTui) - 1 /\ Len(toTui) \in Nat \ {0}
        /\ \A j \in 1..Len(toTui') : toTui'[j] = toTui[j + 1] /\ j + 1 \in 2..Len(toTui)
        /\ \A j \in 2..Len(toTui) : j - 1 \in 1..Len(toTui') /\ toTui'[j - 1] = toTui[j]
    BY <2>1, ReceivedTypes DEF Core
  <2> QED
    BY <2>2
<1>2. UNCHANGED <<next_corr, connected, toBackend, job, asked, answered>>
  BY DEF Received
<1>3. JobInv' /\ QueueInv'
  BY <1>2 DEF Core, JobInv, QueueInv, Chat, Sent, Runs
<1>4. MsgsInv'
  <2>1. \A j \in 1..Len(toTui') : MsgOK(toTui[j])'
    BY <1>1, <1>2 DEF Core, MsgsInv, MsgOK, MsgFits, Answer
  <2>2. \A i, j \in 1..Len(toTui') :
          Answer(toTui'[i]) /\ Answer(toTui'[j]) /\ toTui'[i].corr = toTui'[j].corr => i = j
    BY <1>1 DEF Core, MsgsInv
  <2>3. ASSUME connected, NEW c \in Turns \ answered, Sent(c)
        PROVE  \E j \in 1..Len(toTui') : Answer(toTui'[j]) /\ toTui'[j].corr = c
    <3>1. PICK j \in 1..Len(toTui) : Answer(toTui[j]) /\ toTui[j].corr = c
      BY <2>3 DEF Core, MsgsInv, OnItsWay
    <3>2. j \in 2..Len(toTui)
      BY <1>1, <3>1
    <3> QED
      BY <1>1, <3>1, <3>2
  <2> QED
    BY <1>2, <2>1, <2>2, <2>3 DEF MsgsInv, OnItsWay, Sent, Turns
<1>5. DownInv'
  <2>1. connected
    <3>1. toTui # <<>>
      BY DEF Received
    <3> QED
      BY <3>1 DEF Core, DownInv
  <2> QED
    BY <1>2, <2>1 DEF DownInv
<1> QED
  BY <1>3, <1>4, <1>5

\* The table when nothing changes but that a slot was taken by, or freed of, an
\* entry that is no turn's.
LEMMA TableOther ==
    ASSUME TypesInv, TableInv, NEW k \in Slots, NEW e,
           in_flight[k].corr = 0 \/ in_flight[k].corr \notin Corrs \/ ~TurnEntry(k),
           e.corr \in Corrs => job[e.corr].kind # "chat" /\ e.corr < next_corr,
           in_flight' = [in_flight EXCEPT ![k] = e],
           UNCHANGED <<next_corr, connected, job, asked, answered>>, upset \subseteq upset'
    PROVE  TableInv'
<1>1. in_flight \in [Slots -> [corr : 0..(2 * MaxCorr), depth : {0, 1}, sidx : 0..MaxSessions]]
  BY DEF TypesInv, TypeOK
<1>2. \A l \in Slots : in_flight'[l] = IF l = k THEN e ELSE in_flight[l]
  BY <1>1
<1>3. ~TurnEntry(k) /\ ~TurnEntry(k)'
  BY <1>2, Bounds DEF TurnEntry, Chat, Corrs
<1>4. \A l \in Slots : l # k => (TurnEntry(l)' <=> TurnEntry(l))
  BY <1>2 DEF TurnEntry, Chat
<1>5. \A l \in Slots : in_flight'[l].corr \in Corrs => in_flight'[l].corr < next_corr'
  BY <1>2 DEF TableInv
<1>6. \A l \in Slots : TurnEntry(l)' =>
        in_flight'[l].depth = 0 /\ in_flight'[l].corr \notin answered'
  BY <1>2, <1>3, <1>4 DEF TableInv
<1>7. ASSUME NEW a \in Slots, NEW b \in Slots, TurnEntry(a)',
             in_flight'[a].corr = in_flight'[b].corr
      PROVE  a = b
  <2>1. a # k
    BY <1>3, <1>7
  <2>2. TurnEntry(a) /\ in_flight'[a] = in_flight[a]
    BY <1>2, <1>4, <1>7, <2>1
  <2>3. CASE b = k
    <3>1. e.corr = in_flight[a].corr
      BY <1>2, <1>7, <2>2, <2>3
    <3> QED
      BY <2>2, <3>1 DEF TurnEntry, Chat
  <2>4. CASE b # k
    BY <1>2, <1>7, <2>2, <2>4 DEF TableInv
  <2> QED
    BY <2>3, <2>4
<1>8. ASSUME connected', "overflow" \notin upset', NEW c \in Turns' \ answered'
      PROVE  \E l \in Slots : in_flight'[l].corr = c
  <2>1. c \in Turns \ answered /\ "overflow" \notin upset /\ connected
    BY <1>8 DEF Turns
  <2>2. PICK l \in Slots : in_flight[l].corr = c
    BY <2>1 DEF TableInv
  <2>3. TurnEntry(l)
    BY <2>1, <2>2, TurnIs DEF TurnEntry
  <2>4. l # k
    BY <1>3, <2>3
  <2> QED
    BY <1>2, <2>2, <2>4
<1> QED
  BY <1>5, <1>6, <1>7, <1>8 DEF TableInv

LEMMA TableSame ==
    ASSUME TypesInv, TableInv, \A c \in Corrs : job'[c].kind = job[c].kind,
           UNCHANGED <<in_flight, next_corr, connected, asked, answered>>, upset \subseteq upset'
    PROVE  TableInv'
<1>1. \A k \in Slots : TurnEntry(k)' <=> TurnEntry(k)
  BY DEF TurnEntry, Chat
<1>2. Turns' = Turns
  BY Basics DEF Turns
<1> QED
  BY <1>1, <1>2 DEF TableInv

LEMMA CoreStart ==
    ASSUME TypesInv, Core, NEW m, NEW i, GotStart(m, i)
    PROVE  Core'
<1>1. Received(m) /\ ~Answer(m) /\ UNCHANGED <<answered, asked>> /\ MsgsInv
  BY DEF GotStart, Answer, Core, Received
<1>2. TypesInv'
  BY <1>1, TypesStart
<1>3. OtherTypes'
  BY <1>2 DEF TypesInv, TypeOK, OtherTypes
<1>4. JobInv' /\ QueueInv' /\ MsgsInv' /\ DownInv'
  BY <1>1, <1>3, CoreReceived
<1>5. MsgOK(m)
  BY <1>1, HeadIs DEF Received
<1> DEFINE e == [corr |-> m.corr, depth |-> 1, sidx |-> i]
<1>6. e.corr \in Corrs => job[e.corr].kind # "chat" /\ e.corr < next_corr
  BY <1>5 DEF MsgOK, MsgFits, GotStart
<1>7. \/ in_flight' = in_flight
      \/ \E k \in Slots : in_flight[k].corr = 0 /\ in_flight' = [in_flight EXCEPT ![k] = e]
  BY TableWithIs DEF GotStart
<1> HIDE DEF e
<1>8. UNCHANGED <<next_corr, connected, job, asked, answered>> /\ upset \subseteq upset'
  BY <1>1 DEF Received
<1>9. TableInv'
  <2>1. CASE in_flight' = in_flight
    BY <1>8, <2>1, TableSame DEF Core
  <2>2. ASSUME NEW k \in Slots, in_flight[k].corr = 0, in_flight' = [in_flight EXCEPT ![k] = e]
        PROVE  TableInv'
    BY <1>6, <1>8, <2>2, TableOther DEF Core
  <2> QED
    BY <1>7, <2>1, <2>2
<1> QED
  BY <1>4, <1>9 DEF Core

LEMMA CoreEnd ==
    ASSUME TypesInv, Core, NEW m, GotEnd(m)
    PROVE  Core'
<1>1. Received(m) /\ ~Answer(m) /\ UNCHANGED <<answered, asked>> /\ MsgsInv
  BY DEF GotEnd, Answer, Core, Received
<1>2. TypesInv'
  BY <1>1, TypesEnd
<1>3. OtherTypes'
  BY <1>2 DEF TypesInv, TypeOK, OtherTypes
<1>4. JobInv' /\ QueueInv' /\ MsgsInv' /\ DownInv'
  BY <1>1, <1>3, CoreReceived
<1>5. MsgOK(m) /\ m.corr # 0
  BY <1>1, HeadIs DEF Received
<1>6. FreeSlot.corr \notin Corrs
  BY Bounds DEF FreeSlot, Corrs
<1>7. \/ in_flight' = in_flight
      \/ \E k \in Slots : in_flight[k].corr = m.corr
                          /\ in_flight' = [in_flight EXCEPT ![k] = FreeSlot]
  BY <1>5, RemovedIs DEF GotEnd
<1>8. UNCHANGED <<next_corr, connected, job, asked, answered>> /\ upset \subseteq upset'
  BY <1>1 DEF Received
<1>9. TableInv'
  <2>1. CASE in_flight' = in_flight
    BY <1>8, <2>1, TableSame DEF Core
  <2>2. ASSUME NEW k \in Slots, in_flight[k].corr = m.corr,
               in_flight' = [in_flight EXCEPT ![k] = FreeSlot]
        PROVE  TableInv'
    <3>1. ~TurnEntry(k)
      BY <1>5, <2>2 DEF MsgOK, MsgFits, GotEnd, TurnEntry, Chat
    <3> QED
      BY <1>6, <1>8, <2>2, <3>1, TableOther DEF Core
  <2> QED
    BY <1>7, <2>1, <2>2
<1> QED
  BY <1>4, <1>9 DEF Core

LEMMA CoreOther ==
    ASSUME TypesInv, Core, NEW m, GotOther(m), TuiInv', Stable
    PROVE  Core'
<1>1. Received(m) /\ ~Answer(m) /\ UNCHANGED <<in_flight, answered, asked>> /\ MsgsInv
  BY DEF GotOther, Core, Received
<1>2. TypesInv'
  BY <1>1, TypesOther
<1>3. OtherTypes'
  BY <1>2 DEF TypesInv, TypeOK, OtherTypes
<1>4. JobInv' /\ QueueInv' /\ MsgsInv' /\ DownInv'
  BY <1>1, <1>3, CoreReceived
<1>5. UNCHANGED <<next_corr, connected, job>> /\ upset \subseteq upset'
  BY <1>1 DEF Received
<1>6. TableInv'
  BY <1>1, <1>5, TableSame DEF Core
<1> QED
  BY <1>4, <1>6 DEF Core
LEMMA CoreAnswer ==
    ASSUME TypesInv, Core, NEW m, NEW i, NEW chat, GotAnswer(m, i, chat)
    PROVE  Core' /\ m.corr \in Turns \ answered
<1> DEFINE c == m.corr
<1>1. /\ Received(m) /\ Answer(m) /\ answered' = answered \cup {c} /\ UNCHANGED upset
      /\ in_flight' = Removed(c)
      /\ UNCHANGED <<next_corr, connected, toBackend, job, asked>>
  BY DEF GotAnswer, Received
<1>2. connected /\ c \in Corrs /\ c \notin answered /\ c # 0
      /\ job[c].kind = "chat" /\ job[c].pc \in {"name", "done"} /\ c \in Turns
  <2>1. toTui # <<>>
    BY <1>1 DEF Received
  <2>2. MsgOK(m)
    BY <1>1, <2>1, HeadIs DEF Core, Received
  <2>3. c \in Corrs /\ c \notin answered /\ job[c].kind = "chat" /\ job[c].pc \in {"name", "done"}
    BY <1>1, <2>2 DEF MsgOK, MsgFits
  <2>4. connected
    BY <2>1 DEF Core, DownInv
  <2>5. c \in Turns
    <3>1. ~(c >= next_corr) /\ c \in Nat /\ next_corr \in Nat
      BY <2>3, Basics DEF Core, JobInv
    <3> QED
      BY <2>3, <3>1, TurnIs DEF Chat
  <2> QED
    BY <2>3, <2>4, <2>5, Bounds DEF Corrs
<1>3. /\ m = toTui[1] /\ Len(toTui) \in Nat \ {0}
      /\ \A j \in 1..Len(toTui') : toTui'[j] = toTui[j + 1] /\ j + 1 \in 1..Len(toTui) /\ j + 1 # 1
      /\ \A j \in 2..Len(toTui) : j - 1 \in 1..Len(toTui') /\ toTui'[j - 1] = toTui[j]
      /\ \A j \in 1..Len(toTui) : j = 1 \/ j \in 2..Len(toTui)
      /\ 1 \in 1..Len(toTui)
  <2>1. answered' \subseteq Corrs /\ ended' \subseteq Corrs
    BY <1>1, <1>2 DEF TypesInv, TypeOK, GotAnswer
  <2>2. /\ m = toTui[1] /\ Len(toTui') = Len(toTui) - 1 /\ Len(toTui) \in Nat \ {0}
        /\ \A j \in 1..Len(toTui') : toTui'[j] = toTui[j + 1] /\ j + 1 \in 2..Len(toTui)
        /\ \A j \in 2..Len(toTui) : j - 1 \in 1..Len(toTui') /\ toTui'[j - 1] = toTui[j]
    BY <1>1, <2>1, ReceivedTypes DEF Core
  <2> QED
    BY <2>2
<1>4. \A j \in 1..Len(toTui') : Answer(toTui'[j]) => toTui'[j].corr # c
  BY <1>1, <1>3 DEF Core, MsgsInv
<1>5. Turns' = Turns
  BY <1>1 DEF Turns
<1> HIDE DEF c
<1>6. JobInv'
  BY <1>1, <1>2 DEF Core, JobInv, Chat, Sent, Runs
<1>7. QueueInv'
  BY <1>1 DEF Core, QueueInv
<1>8. MsgsInv'
  <2>1. ASSUME NEW j \in 1..Len(toTui')
        PROVE  MsgFits(toTui'[j], job', answered', next_corr')
    <3>1. MsgFits(toTui[j + 1], job, answered, next_corr)
      BY <1>3 DEF Core, MsgsInv, MsgOK
    <3> QED
      BY <1>1, <1>3, <1>4, <3>1 DEF MsgFits
  <2>2. \A a, b \in 1..Len(toTui') :
          Answer(toTui'[a]) /\ Answer(toTui'[b]) /\ toTui'[a].corr = toTui'[b].corr => a = b
    <3>1. \A a, b \in 1..Len(toTui') :
            Answer(toTui'[a]) /\ Answer(toTui'[b]) /\ toTui'[a].corr = toTui'[b].corr =>
              a + 1 = b + 1
      <4>1. \A p, q \in 1..Len(toTui) :
              Answer(toTui[p]) /\ Answer(toTui[q]) /\ toTui[p].corr = toTui[q].corr => p = q
        BY DEF Core, MsgsInv
      <4> QED
        BY ONLY <4>1, <1>3
    <3> QED
      BY <3>1
  <2>3. ASSUME NEW d \in Turns \ answered', Sent(d)
        PROVE  \E j \in 1..Len(toTui') : Answer(toTui'[j]) /\ toTui'[j].corr = d
    <3>1. d \in Turns \ answered /\ d # c
      BY <1>1, <2>3
    <3>2. PICK j \in 1..Len(toTui) : Answer(toTui[j]) /\ toTui[j].corr = d
      BY <1>2, <2>3, <3>1 DEF Core, MsgsInv, OnItsWay
    <3>3. j \in 2..Len(toTui)
      BY <1>3, <3>1, <3>2 DEF c
    <3> QED
      BY <1>3, <3>2, <3>3
  <2> QED
    BY <1>1, <1>5, <2>1, <2>2, <2>3 DEF MsgsInv, MsgOK, OnItsWay, Sent
<1>9. DownInv'
  BY <1>1, <1>2 DEF DownInv
<1>10. TableInv'
  <2>1. in_flight \in [Slots -> [corr : 0..(2 * MaxCorr), depth : {0, 1}, sidx : 0..MaxSessions]]
    BY DEF TypesInv, TypeOK
  <2>2. CASE /\ \A k \in Slots : in_flight[k].corr # c
             /\ Removed(c) = in_flight
    <3>1. \A k \in Slots : TurnEntry(k)' <=> TurnEntry(k)
      BY <1>1, <2>2 DEF TurnEntry, Chat
    <3> QED
      BY <1>1, <1>5, <2>2, <3>1 DEF TableInv, Core
  <2>3. ASSUME NEW k \in Slots, in_flight[k].corr = c,
               Removed(c) = [in_flight EXCEPT ![k] = FreeSlot]
        PROVE  TableInv'
    <3>1. \A l \in Slots : in_flight'[l] = IF l = k THEN FreeSlot ELSE in_flight[l]
      BY <1>1, <2>1, <2>3
    <3>2. FreeSlot.corr \notin Corrs
      BY Bounds DEF FreeSlot, Corrs
    <3>3. \A l \in Slots : TurnEntry(l)' => l # k /\ TurnEntry(l)
      BY <1>1, <3>1, <3>2 DEF TurnEntry, Chat
    <3>4. TurnEntry(k)
      BY <1>2, <2>3 DEF TurnEntry, Chat
    <3>5. \A l \in Slots : in_flight'[l].corr \in Corrs => in_flight'[l].corr < next_corr'
      BY <1>1, <3>1, <3>2 DEF Core, TableInv
    <3>6. \A l \in Slots : TurnEntry(l)' =>
            in_flight'[l].depth = 0 /\ in_flight'[l].corr \notin answered'
      BY <1>1, <2>3, <3>1, <3>3, <3>4 DEF Core, TableInv
    <3>7. ASSUME NEW a \in Slots, NEW b \in Slots, TurnEntry(a)',
                 in_flight'[a].corr = in_flight'[b].corr
          PROVE  a = b
      <4>1. a # k /\ TurnEntry(a) /\ in_flight'[a] = in_flight[a]
        BY <3>1, <3>3, <3>7
      <4>2. b # k
        BY <3>1, <3>2, <3>7, <4>1 DEF TurnEntry
      <4> QED
        BY <3>1, <3>7, <4>1, <4>2 DEF Core, TableInv
    <3>8. ASSUME "overflow" \notin upset', NEW d \in Turns' \ answered'
          PROVE  \E l \in Slots : in_flight'[l].corr = d
      <4>1. d \in Turns \ answered /\ d # c
        BY <1>1, <1>5, <3>8
      <4>2. PICK l \in Slots : in_flight[l].corr = d
        BY <1>1, <1>2, <3>8, <4>1 DEF Core, TableInv
      <4> QED
        BY <2>3, <3>1, <4>1, <4>2
    <3> QED
      BY <3>5, <3>6, <3>7, <3>8 DEF TableInv
  <2> QED
    BY <1>2, <2>2, <2>3, RemovedIs
<1> QED
  BY <1>2, <1>6, <1>7, <1>8, <1>9, <1>10 DEF Core, c

LEMMA CoreDown ==
    ASSUME TypesInv, Core, Disconnect
    PROVE  Core'
<1>1. /\ toBackend' = <<>> /\ toTui' = <<>> /\ connected' = FALSE
      /\ \A k \in Slots : in_flight'[k] = FreeSlot
      /\ \A c \in Corrs : /\ job'[c].kind = job[c].kind /\ job'[c].sidx = job[c].sidx
                          /\ job'[c].pc = IF job[c].pc = "none" THEN "none" ELSE "done"
      /\ UNCHANGED <<next_corr, asked, answered>>
  BY DisconnectIs DEF histVars
<1>2. FreeSlot.corr = 0 /\ 0 \notin Corrs
  BY Bounds DEF FreeSlot, Corrs
<1>3. answered \subseteq Corrs
  BY DEF TypesInv, TypeOK
<1>4. JobInv'
  <2>1. ASSUME NEW c \in Corrs
        PROVE  /\ c >= next_corr' <=> job'[c].pc = "none"
               /\ job'[c].pc \in {"loop", "sub", "name"} => job'[c].kind = "chat"
               /\ job'[c].pc \in {"reply", "end"} => job'[c].kind # "chat"
               /\ job'[c].pc \notin {"none", "queued", "done"} => job'[c].sidx # 0
    BY <1>1 DEF Core, JobInv
  <2>2. \A c \in answered' : job'[c].kind = "chat" /\ job'[c].pc \in {"name", "done"}
    BY <1>1, <1>3 DEF Core, JobInv, Chat, Sent
  <2> QED
    BY <2>1, <2>2 DEF JobInv, Chat, Runs, Sent
<1>5. Len(toBackend') = 0 /\ Len(toTui') = 0
  BY <1>1
<1>6. QueueInv' /\ MsgsInv'
  BY <1>1, <1>5 DEF QueueInv, MsgsInv
<1>7. DownInv'
  BY <1>1, <1>2 DEF DownInv, Runs, Used
<1>8. TableInv'
  BY <1>1, <1>2 DEF TableInv, TurnEntry
<1> QED
  BY <1>4, <1>6, <1>7, <1>8 DEF Core

LEMMA CoreDispatch ==
    ASSUME TypesInv, Core, Dispatch
    PROVE  Core'
<1> PICK m : m = toBackend[1]
  OBVIOUS
<1>1. /\ UNCHANGED <<toTui, backendOnly>>
      /\ m.corr \in Corrs /\ m.sidx # 0 /\ 1 \in 1..Len(toBackend)
      /\ job'[m.corr].pc = "run" /\ job'[m.corr].kind = m.kind /\ job'[m.corr].sidx = m.sidx
      /\ \A d \in Corrs : d # m.corr => job'[d] = job[d]
      /\ Len(toBackend') = Len(toBackend) - 1 /\ Len(toBackend) \in Nat \ {0}
      /\ \A j \in 1..Len(toBackend') :
           toBackend'[j] = toBackend[j + 1] /\ j + 1 \in 1..Len(toBackend) /\ j + 1 # 1
  <2>1. /\ UNCHANGED <<toTui, backendOnly>>
        /\ m.corr \in Corrs /\ m.sidx # 0 /\ 1 \in 1..Len(toBackend)
        /\ job'[m.corr].pc = "run" /\ job'[m.corr].kind = m.kind /\ job'[m.corr].sidx = m.sidx
        /\ \A d \in Corrs : d # m.corr => job'[d] = job[d]
        /\ Len(toBackend') = Len(toBackend) - 1 /\ Len(toBackend) \in Nat \ {0}
        /\ \A j \in 1..Len(toBackend') :
             toBackend'[j] = toBackend[j + 1] /\ j + 1 \in 2..Len(toBackend)
    BY DispatchIs
  <2> QED
    BY <2>1
<1>2. UNCHANGED <<in_flight, next_corr, connected, asked, answered, upset, toTui>>
  BY <1>1 DEF backendOnly, tuiVars, histVars
<1>3. job[m.corr].pc = "queued" /\ job[m.corr].kind = m.kind
  BY <1>1 DEF Core, QueueInv
<1>4. \A c \in Corrs : job'[c].kind = job[c].kind
  BY <1>1, <1>3
<1>5. \A c \in Corrs : job[c].pc \in {"name", "done"} => c # m.corr /\ job'[c] = job[c]
  BY <1>1, <1>3
<1>6. \A c \in Corrs : job'[c].pc \in {"name", "done"} => c # m.corr /\ job'[c] = job[c]
  BY <1>1
<1>7. answered \subseteq Corrs
  BY DEF TypesInv, TypeOK
<1>8. JobInv'
  <2>1. ASSUME NEW c \in Corrs
        PROVE  /\ c >= next_corr' <=> job'[c].pc = "none"
               /\ job'[c].pc \in {"loop", "sub", "name"} => job'[c].kind = "chat"
               /\ job'[c].pc \in {"reply", "end"} => job'[c].kind # "chat"
               /\ job'[c].pc \notin {"none", "queued", "done"} => job'[c].sidx # 0
    <3>1. CASE c = m.corr
      <4>1. ~(c >= next_corr)
        BY <1>3, <3>1 DEF Core, JobInv
      <4> QED
        BY <1>1, <1>2, <3>1, <4>1
    <3>2. CASE c # m.corr
      BY <1>1, <1>2, <3>2 DEF Core, JobInv, Chat, Runs
    <3> QED
      BY <3>1, <3>2
  <2>2. \A c \in answered' : job'[c].kind = "chat" /\ job'[c].pc \in {"name", "done"}
    BY <1>2, <1>5, <1>7 DEF Core, JobInv, Chat, Sent
  <2> QED
    BY <2>1, <2>2 DEF JobInv, Chat, Runs, Sent
<1>9. QueueInv'
  <2>1. \A j \in 1..Len(toBackend') : toBackend'[j].corr # m.corr
    BY <1>1 DEF Core, QueueInv
  <2>2. ASSUME NEW j \in 1..Len(toBackend')
        PROVE  toBackend'[j].corr \in Corrs
    <3>1. toBackend[j + 1] \in Request
      BY <1>1, ElementOfSeq DEF TypesInv, TypeOK
    <3> QED
      BY <1>1, <3>1 DEF Request
  <2>3. \A j \in 1..Len(toBackend') : /\ job'[toBackend'[j].corr].pc = "queued"
                                      /\ job'[toBackend'[j].corr].kind = toBackend'[j].kind
    BY <1>1, <2>1, <2>2 DEF Core, QueueInv
  <2>4. \A a, b \in 1..Len(toBackend') : toBackend'[a].corr = toBackend'[b].corr => a + 1 = b + 1
    BY SMTT(30), <1>1 DEF Core, QueueInv
  <2>5. \A a, b \in 1..Len(toBackend') : a + 1 = b + 1 => a = b
    OBVIOUS
  <2> QED
    BY <2>3, <2>4, <2>5 DEF QueueInv
<1>10. MsgsInv'
  <2>1. ASSUME NEW j \in 1..Len(toTui)
        PROVE  MsgFits(toTui[j], job', answered, next_corr)
    BY <1>4, <1>5 DEF Core, MsgsInv, MsgOK, MsgFits
  <2>2. Turns' = Turns
    BY <1>2, <1>4, Basics DEF Turns
  <2>3. \A c \in Turns : job'[c].pc \in {"name", "done"} => Sent(c)
    BY <1>6, Basics DEF Sent
  <2> QED
    BY <1>2, <2>1, <2>2, <2>3 DEF Core, MsgsInv, MsgOK, OnItsWay, Sent
<1>11. DownInv'
  <2>1. toBackend # <<>>
    BY DEF Dispatch
  <2>2. connected
    BY <2>1 DEF Core, DownInv
  <2> QED
    BY <1>2, <2>2 DEF DownInv
<1>12. TableInv'
  BY <1>2, <1>4, TableSame DEF Core
<1> QED
  BY <1>8, <1>9, <1>10, <1>11, <1>12 DEF Core
LEMMA CoreThread ==
    ASSUME TypesInv, Core, NEW c \in Corrs, NEW to, NEW subs, ThreadMove(c, to, subs)
    PROVE  Core'
<1>1. /\ UNCHANGED <<in_flight, next_corr, connected, asked, answered, upset, toBackend>>
      /\ job'[c].pc = to /\ job'[c].kind = job[c].kind /\ job'[c].sidx = job[c].sidx
      /\ \A d \in Corrs : d # c => job'[d] = job[d]
  BY ThreadMoveIs
<1>2. /\ \/ toTui' = toTui /\ Silent(c, to)
         \/ \E m \in Message :
              /\ Says(c, to, m) /\ Len(toTui) \in Nat
              /\ Len(toTui') = Len(toTui) + 1
              /\ \A j \in 1..Len(toTui) : toTui'[j] = toTui[j]
              /\ toTui'[Len(toTui) + 1] = m
              /\ \A j \in 1..(Len(toTui) + 1) : j \in 1..Len(toTui) \/ j = Len(toTui) + 1
  BY ThreadMoveIs
<1>3. /\ job[c].pc \notin {"none", "queued", "done"}
      /\ to \in {"loop", "sub", "name", "reply", "end", "done"}
      /\ to \in {"loop", "sub", "name"} => job[c].kind = "chat"
      /\ to \in {"reply", "end"} => job[c].kind # "chat"
  BY DEF ThreadMove, Runs, Chat
<1>4. \A d \in Corrs : job'[d].kind = job[d].kind /\ job'[d].sidx = job[d].sidx
  BY <1>1
\* What was sent stays sent.
<1>5. \A d \in Corrs : job[d].kind = "chat" /\ job[d].pc \in {"name", "done"} =>
        job'[d].pc \in {"name", "done"}
  <2>1. job[c].kind = "chat" /\ job[c].pc \in {"name", "done"} => to \in {"name", "done"}
    BY <1>2 DEF Silent, Says, Chat, Sent
  <2> QED
    BY <1>1, <2>1
<1>6. answered \subseteq Corrs /\ c \in Nat /\ next_corr \in Nat
  BY Basics DEF TypesInv, TypeOK
<1>7. c < next_corr
  <2>1. ~(c >= next_corr)
    BY <1>3 DEF Core, JobInv
  <2> QED
    BY <1>6, <2>1
<1>8. JobInv'
  <2>1. ASSUME NEW d \in Corrs
        PROVE  /\ d >= next_corr' <=> job'[d].pc = "none"
               /\ job'[d].pc \in {"loop", "sub", "name"} => job'[d].kind = "chat"
               /\ job'[d].pc \in {"reply", "end"} => job'[d].kind # "chat"
               /\ job'[d].pc \notin {"none", "queued", "done"} => job'[d].sidx # 0
    <3>1. CASE d = c
      <4>1. job[c].sidx # 0 /\ ~(c >= next_corr)
        BY <1>3 DEF Core, JobInv, Runs
      <4> QED
        BY <1>1, <1>3, <3>1, <4>1
    <3>2. CASE d # c
      BY <1>1, <3>2 DEF Core, JobInv, Chat, Runs
    <3> QED
      BY <3>1, <3>2
  <2>2. \A d \in answered' : job'[d].kind = "chat" /\ job'[d].pc \in {"name", "done"}
    BY <1>1, <1>4, <1>5, <1>6 DEF Core, JobInv, Chat, Sent
  <2> QED
    BY <2>1, <2>2 DEF JobInv, Chat, Runs, Sent
<1>9. QueueInv'
  <2>1. ASSUME NEW j \in 1..Len(toBackend)
        PROVE  toBackend[j].corr \in Corrs
    <3>1. toBackend[j] \in Request
      BY ElementOfSeq DEF TypesInv, TypeOK
    <3> QED
      BY <3>1 DEF Request
  <2>2. \A j \in 1..Len(toBackend) : toBackend[j].corr # c
    BY <1>3 DEF Core, QueueInv
  <2> QED
    BY <1>1, <2>1, <2>2 DEF Core, QueueInv
<1>10. MsgsInv'
  <2>1. ASSUME NEW j \in 1..Len(toTui)
        PROVE  MsgFits(toTui[j], job', answered, next_corr)
    BY <1>4, <1>5 DEF Core, MsgsInv, MsgOK, MsgFits
  <2>2. Turns' = Turns
    BY <1>1, <1>4, Basics DEF Turns
  <2>3. \A a, b \in 1..Len(toTui) :
          Answer(toTui[a]) /\ Answer(toTui[b]) /\ toTui[a].corr = toTui[b].corr => a = b
    BY DEF Core, MsgsInv
  <2>4. ASSUME connected, NEW d \in Turns \ answered, job[d].pc \in {"name", "done"}
        PROVE  \E j \in 1..Len(toTui) : Answer(toTui[j]) /\ toTui[j].corr = d
    BY <2>4 DEF Core, MsgsInv, OnItsWay, Sent
  <2>5. CASE toTui' = toTui /\ Silent(c, to)
    <3>1. \A d \in Turns : job'[d].pc \in {"name", "done"} => job[d].pc \in {"name", "done"}
      BY <1>1, <2>5, Basics DEF Turns, Silent, Chat, Sent
    <3> QED
      BY <1>1, <2>1, <2>2, <2>3, <2>4, <2>5, <3>1 DEF MsgsInv, MsgOK, OnItsWay, Sent
  <2>6. ASSUME NEW m \in Message,
               /\ Says(c, to, m) /\ Len(toTui) \in Nat
               /\ Len(toTui') = Len(toTui) + 1
               /\ \A j \in 1..Len(toTui) : toTui'[j] = toTui[j]
               /\ toTui'[Len(toTui) + 1] = m
               /\ \A j \in 1..(Len(toTui) + 1) : j \in 1..Len(toTui) \/ j = Len(toTui) + 1
        PROVE  MsgsInv'
    <3>1. job[c].sidx # 0
      BY <1>3 DEF Core, JobInv, Runs
    <3>2. c \notin answered \/ ~Answer(m)
      BY <2>6 DEF Says, Core, JobInv
    <3>3. MsgFits(m, job', answered, next_corr)
      BY <1>1, <1>7, <2>6, <3>1, <3>2 DEF MsgFits, Says, Chat, Answer
    <3>4. \A j \in 1..Len(toTui) : Answer(m) /\ Answer(toTui[j]) => toTui[j].corr # m.corr
      BY <2>6 DEF Core, MsgsInv, MsgOK, MsgFits, Says, Sent
    <3>5. \A j \in 1..Len(toTui') : MsgFits(toTui'[j], job', answered, next_corr)
      BY <2>1, <2>6, <3>3
    <3>6. \A a, b \in 1..Len(toTui') :
            Answer(toTui'[a]) /\ Answer(toTui'[b]) /\ toTui'[a].corr = toTui'[b].corr => a = b
      BY <2>3, <2>6, <3>4
    <3>7. ASSUME connected, NEW d \in Turns \ answered, job'[d].pc \in {"name", "done"}
          PROVE  \E j \in 1..Len(toTui') : Answer(toTui'[j]) /\ toTui'[j].corr = d
      <4>1. CASE job[d].pc \in {"name", "done"}
        <5>1. PICK j \in 1..Len(toTui) : Answer(toTui[j]) /\ toTui[j].corr = d
          BY <2>4, <3>7, <4>1
        <5>2. j \in 1..Len(toTui') /\ toTui'[j] = toTui[j]
          BY <2>6
        <5> QED
          BY <5>1, <5>2
      <4>2. CASE job[d].pc \notin {"name", "done"}
        <5>1. d = c /\ Answer(m) /\ m.corr = c
          BY <1>1, <2>6, <3>7, <4>2, Basics DEF Turns, Says, Silent, Chat, Sent
        <5>2. Len(toTui) + 1 \in 1..Len(toTui')
          BY <2>6
        <5> QED
          BY <2>6, <5>1, <5>2
      <4> QED
        BY <4>1, <4>2
    <3> QED
      BY <1>1, <2>2, <3>5, <3>6, <3>7 DEF MsgsInv, MsgOK, OnItsWay, Sent
  <2> QED
    BY <1>2, <2>5, <2>6
<1>11. DownInv'
  BY <1>1, <1>3 DEF Core, DownInv, Runs
<1>12. TableInv'
  BY <1>1, <1>4, TableSame DEF Core
<1> QED
  BY <1>8, <1>9, <1>10, <1>11, <1>12 DEF Core
-----------------------------------------------------------------------------
(* The indexes that travel lead to the session of their request.           *)

\* What every step but a deletion does to sessions and requests: both stay
\* where they are, and more may follow.
Grows ==
    /\ Stable
    /\ Len(asked') \in Nat /\ Len(asked) <= Len(asked')
    /\ \A c \in 1..Len(asked) : asked'[c] = asked[c]
    /\ upset \subseteq upset'

LEMMA DestKept ==
    ASSUME TypesInv, Grows, NEW c \in 1..Len(asked), NEW i, Dest(i, c)
    PROVE  i \in 1..Count' /\ sessions'[i].id = asked'[c]
<1>1. Count \in Nat
  BY Basics
<1> QED
  BY <1>1 DEF Grows, Stable, Dest

LEMMA KnownCorrs ==
    ASSUME TypesInv, Core
    PROVE  /\ \A c \in Corrs : job[c].pc # "none" => c \in 1..Len(asked)
           /\ \A j \in 1..Len(toBackend) : toBackend[j].corr \in 1..Len(asked)
           /\ \A j \in 1..Len(toTui) : toTui[j].type \in {"REP_FINAL", "SESSION_RENAME"} =>
                toTui[j].corr \in 1..Len(asked)
           /\ \A k \in Slots : TurnEntry(k) => in_flight[k].corr \in 1..Len(asked)
<1>1. /\ next_corr \in Nat
      /\ \A c \in Corrs : c \in Nat /\ (c < next_corr <=> c \in 1..Len(asked))
  BY Basics
<1>2. \A c \in Corrs : job[c].pc # "none" => c \in 1..Len(asked)
  BY <1>1 DEF Core, JobInv
<1>3. ASSUME NEW j \in 1..Len(toBackend)
      PROVE  toBackend[j].corr \in 1..Len(asked)
  <2>1. toBackend[j] \in Request
    BY ElementOfSeq DEF TypesInv, TypeOK
  <2>2. toBackend[j].corr \in Corrs
    BY <2>1 DEF Request
  <2> QED
    BY <1>2, <2>2 DEF Core, QueueInv
<1>4. ASSUME NEW j \in 1..Len(toTui), toTui[j].type \in {"REP_FINAL", "SESSION_RENAME"}
      PROVE  toTui[j].corr \in 1..Len(asked)
  <2>1. MsgFits(toTui[j], job, answered, next_corr)
    BY DEF Core, MsgsInv, MsgOK
  <2> QED
    BY <1>1, <1>2, <1>4, <2>1 DEF MsgFits, Answer
<1>5. \A k \in Slots : TurnEntry(k) => in_flight[k].corr \in 1..Len(asked)
  BY <1>1 DEF Core, TableInv, TurnEntry
<1> QED
  BY <1>2, <1>3, <1>4, <1>5

LEMMA DestLocal ==
    ASSUME TypesInv, Core, DestInv, Local, Stable
    PROVE  DestInv' /\ Grows
<1>1. UNCHANGED <<toBackend, toTui, in_flight, job, asked>> /\ upset \subseteq upset'
  BY DEF Local
<1>2. Grows
  BY <1>1, Basics DEF Grows
<1>3. ASSUME "deleted" \notin upset
      PROVE  /\ \A j \in 1..Len(toBackend) : Dest(toBackend[j].sidx, toBackend[j].corr)
             /\ \A c \in Corrs : Runs(c) => Dest(job[c].sidx, c)
             /\ \A j \in 1..Len(toTui) : toTui[j].type \in {"REP_FINAL", "SESSION_RENAME"} =>
                  Dest(toTui[j].sidx, toTui[j].corr)
             /\ \A k \in Slots : TurnEntry(k) => Dest(in_flight[k].sidx, in_flight[k].corr)
  BY <1>3 DEF DestInv
<1>4. ASSUME NEW c \in 1..Len(asked), NEW i, Dest(i, c)
      PROVE  i \in 1..Count' /\ sessions'[i].id = asked[c]
  BY <1>1, <1>2, <1>4, DestKept
<1>5. \A c \in Corrs : Runs(c) => c \in 1..Len(asked)
  BY KnownCorrs DEF Runs
<1>6. "deleted" \notin upset' => "deleted" \notin upset
  BY <1>1
<1> DEFINE In(i, c) == i \in 1..Count' /\ sessions'[i].id = asked[c]
<1>7. ASSUME "deleted" \notin upset
      PROVE  /\ \A j \in 1..Len(toBackend) : In(toBackend[j].sidx, toBackend[j].corr)
             /\ \A c \in Corrs : Runs(c) => In(job[c].sidx, c)
             /\ \A j \in 1..Len(toTui) : toTui[j].type \in {"REP_FINAL", "SESSION_RENAME"} =>
                  In(toTui[j].sidx, toTui[j].corr)
             /\ \A k \in Slots : TurnEntry(k) => In(in_flight[k].sidx, in_flight[k].corr)
  BY <1>3, <1>4, <1>5, <1>7, KnownCorrs
<1>8. DestInv'
  BY <1>1, <1>6, <1>7 DEF DestInv, Dest, Runs, TurnEntry, Chat
<1> QED
  BY <1>2, <1>8

LEMMA DestAsked ==
    ASSUME TypesInv, Core, DestInv, NEW kind, NEW f, NEW chat, Asked(kind, f, chat)
    PROVE  DestInv' /\ Grows
<1> PICK n : n = next_corr
  OBVIOUS
<1>1. /\ Stable /\ Count' = Count
      /\ \A d \in Corrs : d # n => job'[d] = job[d]
      /\ job'[n].pc = "queued" /\ job'[n].kind = kind
      /\ Len(asked') = n
      /\ \A c \in 1..(n - 1) : asked'[c] = asked[c]
      /\ asked'[n] = sessions[active].id
      /\ Len(toBackend) \in Nat
      /\ Len(toBackend') = Len(toBackend) + 1
      /\ \A j \in 1..Len(toBackend) : toBackend'[j] = toBackend[j]
      /\ toBackend'[Len(toBackend) + 1] =
           [corr |-> n, kind |-> kind, sidx |-> active, first |-> f]
      /\ \A j \in 1..(Len(toBackend) + 1) :
           j \in 1..Len(toBackend) \/ j = Len(toBackend) + 1
  BY SMTT(30), AskedIs
<1>2. n \in Corrs /\ n \in Nat /\ Len(asked) = n - 1 /\ active \in 1..Count
      /\ in_flight' = TableWith(n, 0, active) /\ upset \subseteq upset' /\ UNCHANGED toTui
  BY Basics DEF Asked
<1>3. Grows
  BY <1>1, <1>2 DEF Grows
<1>4. active \in 1..Count' /\ sessions'[active].id = asked'[n]
  BY <1>1, <1>2 DEF Stable
<1> DEFINE In(i, c) == i \in 1..Count' /\ sessions'[i].id = asked'[c]
<1>5. \A c \in 1..Len(asked) : \A i : Dest(i, c) => In(i, c) /\ c # n
  BY <1>2, <1>3, DestKept
<1>6. SUFFICES ASSUME "deleted" \notin upset'
               PROVE  /\ \A j \in 1..Len(toBackend') : In(toBackend'[j].sidx, toBackend'[j].corr)
                      /\ \A c \in Corrs : job'[c].pc \notin {"none", "queued", "done"} =>
                           In(job'[c].sidx, c)
                      /\ \A j \in 1..Len(toTui) :
                           toTui[j].type \in {"REP_FINAL", "SESSION_RENAME"} =>
                             In(toTui[j].sidx, toTui[j].corr)
                      /\ \A k \in Slots :
                           in_flight'[k].corr \in Corrs /\ job'[in_flight'[k].corr].kind = "chat" =>
                             In(in_flight'[k].sidx, in_flight'[k].corr)
  BY <1>2, <1>3 DEF DestInv, Dest, Runs, TurnEntry, Chat
<1>7. /\ \A j \in 1..Len(toBackend) : Dest(toBackend[j].sidx, toBackend[j].corr)
      /\ \A c \in Corrs : Runs(c) => Dest(job[c].sidx, c)
      /\ \A j \in 1..Len(toTui) : toTui[j].type \in {"REP_FINAL", "SESSION_RENAME"} =>
           Dest(toTui[j].sidx, toTui[j].corr)
      /\ \A k \in Slots : TurnEntry(k) => Dest(in_flight[k].sidx, in_flight[k].corr)
  BY <1>2, <1>6 DEF DestInv
<1>8. \A j \in 1..Len(toBackend') : In(toBackend'[j].sidx, toBackend'[j].corr)
  <2>1. \A j \in 1..Len(toBackend) : In(toBackend[j].sidx, toBackend[j].corr)
    BY <1>5, <1>7, KnownCorrs
  <2>2. LET m == toBackend'[Len(toBackend) + 1] IN In(m.sidx, m.corr)
    BY <1>1, <1>4
  <2> QED
    BY <1>1, <2>1, <2>2
<1>9. ASSUME NEW c \in Corrs, job'[c].pc \notin {"none", "queued", "done"}
      PROVE  In(job'[c].sidx, c)
  <2>1. c # n /\ job'[c] = job[c]
    BY <1>1, <1>9
  <2>2. Runs(c) /\ job[c].pc # "none"
    BY <1>9, <2>1 DEF Runs
  <2>3. c \in 1..Len(asked) /\ Dest(job[c].sidx, c)
    BY <1>7, <2>2, KnownCorrs
  <2> QED
    BY <1>5, <2>1, <2>3
<1>10. \A j \in 1..Len(toTui) : toTui[j].type \in {"REP_FINAL", "SESSION_RENAME"} =>
         In(toTui[j].sidx, toTui[j].corr)
  BY <1>5, <1>7, KnownCorrs
<1>11. ASSUME NEW k \in Slots, in_flight'[k].corr \in Corrs,
              job'[in_flight'[k].corr].kind = "chat"
       PROVE  In(in_flight'[k].sidx, in_flight'[k].corr)
  <2> DEFINE e == [corr |-> n, depth |-> 0, sidx |-> active]
  <2>1. in_flight \in [Slots -> [corr : 0..(2 * MaxCorr), depth : {0, 1}, sidx : 0..MaxSessions]]
    BY DEF TypesInv, TypeOK
  <2>2. \/ in_flight' = in_flight
        \/ \E l \in Slots : in_flight' = [in_flight EXCEPT ![l] = e]
    BY <1>2, TableWithIs
  <2>3. e.corr = n /\ e.sidx = active
    OBVIOUS
  <2> HIDE DEF e
  <2>4. in_flight'[k] = in_flight[k] \/ in_flight'[k] = e
    BY <2>1, <2>2
  <2>5. CASE in_flight'[k] = e
    BY <1>4, <2>3, <2>5
  <2>6. CASE in_flight'[k] = in_flight[k]
    <3>1. in_flight[k].corr \in Corrs /\ in_flight[k].corr < next_corr /\ in_flight[k].corr # n
      <4>1. in_flight[k].corr \in Corrs /\ in_flight[k].corr < next_corr
        BY <1>11, <2>6 DEF Core, TableInv
      <4> QED
        BY <1>2, <4>1
    <3>2. TurnEntry(k)
      BY <1>1, <1>11, <2>6, <3>1 DEF TurnEntry, Chat
    <3>3. in_flight[k].corr \in 1..Len(asked) /\ Dest(in_flight[k].sidx, in_flight[k].corr)
      BY <1>7, <3>2, KnownCorrs
    <3> QED
      BY <1>5, <2>6, <3>3
  <2> QED
    BY <2>4, <2>5, <2>6
<1> QED
  BY <1>8, <1>9, <1>10, <1>11
\* The TUI takes a message: the entries of turns that remain are old ones.
EntriesOld == \A k \in Slots : TurnEntry(k)' => TurnEntry(k) /\ in_flight'[k] = in_flight[k]

LEMMA DestReceived ==
    ASSUME TypesInv, Core, DestInv, NEW m, Received(m), Stable, EntriesOld,
           answered' \subseteq Corrs, ended' \subseteq Corrs
    PROVE  DestInv' /\ Grows
<1>1. /\ UNCHANGED <<next_corr, connected, toBackend, job, asked>> /\ upset \subseteq upset'
      /\ \A j \in 1..Len(toTui') : toTui'[j] = toTui[j + 1] /\ j + 1 \in 1..Len(toTui)
  <2>1. /\ Len(toTui) \in Nat \ {0}
        /\ \A j \in 1..Len(toTui') : toTui'[j] = toTui[j + 1] /\ j + 1 \in 2..Len(toTui)
    BY ReceivedTypes DEF Core
  <2> QED
    BY <2>1 DEF Received
<1>2. Grows
  BY <1>1, Basics DEF Grows
<1> DEFINE In(i, c) == i \in 1..Count' /\ sessions'[i].id = asked[c]
<1>3. \A c \in 1..Len(asked) : \A i : Dest(i, c) => In(i, c)
  BY <1>1, <1>2, DestKept
<1>4. SUFFICES ASSUME "deleted" \notin upset'
               PROVE  /\ \A j \in 1..Len(toBackend) : In(toBackend[j].sidx, toBackend[j].corr)
                      /\ \A c \in Corrs : Runs(c) => In(job[c].sidx, c)
                      /\ \A j \in 1..Len(toTui') :
                           toTui'[j].type \in {"REP_FINAL", "SESSION_RENAME"} =>
                             In(toTui'[j].sidx, toTui'[j].corr)
                      /\ \A k \in Slots :
                           TurnEntry(k)' => In(in_flight'[k].sidx, in_flight'[k].corr)
  BY <1>1, <1>2 DEF DestInv, Dest, Runs
<1>5. /\ \A j \in 1..Len(toBackend) : Dest(toBackend[j].sidx, toBackend[j].corr)
      /\ \A c \in Corrs : Runs(c) => Dest(job[c].sidx, c)
      /\ \A j \in 1..Len(toTui) : toTui[j].type \in {"REP_FINAL", "SESSION_RENAME"} =>
           Dest(toTui[j].sidx, toTui[j].corr)
      /\ \A k \in Slots : TurnEntry(k) => Dest(in_flight[k].sidx, in_flight[k].corr)
  BY <1>1, <1>4 DEF DestInv
<1>6. \A j \in 1..Len(toBackend) : In(toBackend[j].sidx, toBackend[j].corr)
  BY <1>3, <1>5, KnownCorrs
<1>7. \A c \in Corrs : Runs(c) => In(job[c].sidx, c)
  BY <1>3, <1>5, KnownCorrs DEF Runs
<1>8. \A j \in 1..Len(toTui) : toTui[j].type \in {"REP_FINAL", "SESSION_RENAME"} =>
        In(toTui[j].sidx, toTui[j].corr)
  BY <1>3, <1>5, KnownCorrs
<1>9. \A k \in Slots : TurnEntry(k) => In(in_flight[k].sidx, in_flight[k].corr)
  BY <1>3, <1>5, KnownCorrs
<1> HIDE DEF In
<1>10. \A k \in Slots : TurnEntry(k)' => In(in_flight'[k].sidx, in_flight'[k].corr)
  BY <1>9 DEF EntriesOld
<1> QED
  BY <1>1, <1>6, <1>7, <1>8, <1>10

LEMMA TypedTable ==
    ASSUME TypesInv
    PROVE  in_flight \in [Slots -> [corr : 0..(2 * MaxCorr), depth : {0, 1}, sidx : 0..MaxSessions]]
BY DEF TypesInv, TypeOK

LEMMA EntriesAnswer ==
    ASSUME TypesInv, Core, NEW m, NEW i, NEW chat, GotAnswer(m, i, chat)
    PROVE  EntriesOld
<1>1. UNCHANGED job /\ in_flight' = Removed(m.corr) /\ m.corr # 0
  <2>1. m.corr \in Corrs
    BY TypesAnswer DEF Core
  <2> QED
    BY <2>1, Bounds DEF GotAnswer, Received, Corrs
<1>2. FreeSlot.corr \notin Corrs
  BY Bounds DEF FreeSlot, Corrs
<1>3. \/ in_flight' = in_flight
      \/ \E k \in Slots : in_flight' = [in_flight EXCEPT ![k] = FreeSlot]
  BY <1>1, RemovedIs
<1>4. \A k \in Slots : in_flight'[k] = in_flight[k] \/ in_flight'[k] = FreeSlot
  BY <1>3, TypedTable
<1> QED
  BY <1>1, <1>2, <1>4 DEF EntriesOld, TurnEntry, Chat

LEMMA EntriesEnd ==
    ASSUME TypesInv, Core, NEW m, GotEnd(m)
    PROVE  EntriesOld
<1>1. UNCHANGED job /\ in_flight' = Removed(m.corr) /\ m.corr # 0
  <2>1. m.corr # 0
    BY HeadIs DEF GotEnd, Received, Core
  <2> QED
    BY <2>1 DEF GotEnd, Received
<1>2. FreeSlot.corr \notin Corrs
  BY Bounds DEF FreeSlot, Corrs
<1>3. \/ in_flight' = in_flight
      \/ \E k \in Slots : in_flight' = [in_flight EXCEPT ![k] = FreeSlot]
  BY <1>1, RemovedIs
<1>4. \A k \in Slots : in_flight'[k] = in_flight[k] \/ in_flight'[k] = FreeSlot
  BY <1>3, TypedTable
<1> QED
  BY <1>1, <1>2, <1>4 DEF EntriesOld, TurnEntry, Chat

LEMMA EntriesStart ==
    ASSUME TypesInv, Core, NEW m, NEW i, GotStart(m, i)
    PROVE  EntriesOld
<1> DEFINE e == [corr |-> m.corr, depth |-> 1, sidx |-> i]
<1>1. UNCHANGED job /\ in_flight' = TableWith(m.corr, 1, i)
  BY DEF GotStart, Received
<1>2. e.corr = m.corr /\ (m.corr \in Corrs => job[m.corr].kind # "chat")
  <2>1. MsgOK(m)
    BY HeadIs DEF GotStart, Received, Core
  <2> QED
    BY <2>1 DEF MsgOK, MsgFits, GotStart
<1>3. \/ in_flight' = in_flight
      \/ \E k \in Slots : in_flight' = [in_flight EXCEPT ![k] = e]
  BY <1>1, TableWithIs
<1> HIDE DEF e
<1>4. \A k \in Slots : in_flight'[k] = in_flight[k] \/ in_flight'[k] = e
  BY <1>3, TypedTable
<1> QED
  BY <1>1, <1>2, <1>4 DEF EntriesOld, TurnEntry, Chat

LEMMA EntriesOther ==
    ASSUME NEW m, GotOther(m)
    PROVE  EntriesOld
BY DEF GotOther, Received, EntriesOld, TurnEntry, Chat

LEMMA DestDown ==
    ASSUME TypesInv, Core, DestInv, Disconnect
    PROVE  DestInv' /\ Grows
<1>1. /\ Stable /\ toBackend' = <<>> /\ toTui' = <<>>
      /\ \A k \in Slots : in_flight'[k] = FreeSlot
      /\ \A c \in Corrs : job'[c].pc = IF job[c].pc = "none" THEN "none" ELSE "done"
      /\ UNCHANGED histVars
  BY DisconnectIs
<1>2. Len(toBackend') = 0 /\ Len(toTui') = 0
  BY <1>1
<1>3. FreeSlot.corr \notin Corrs
  BY Bounds DEF FreeSlot, Corrs
<1>4. DestInv'
  BY <1>1, <1>2, <1>3 DEF DestInv, Runs, TurnEntry
<1>5. Grows
  BY <1>1, Basics DEF Grows, histVars
<1> QED
  BY <1>4, <1>5

LEMMA DestDispatch ==
    ASSUME TypesInv, Core, DestInv, Dispatch
    PROVE  DestInv' /\ Grows
<1> PICK m : m = toBackend[1]
  OBVIOUS
<1>1. /\ UNCHANGED <<toTui, backendOnly>> /\ Stable
      /\ m.corr \in Corrs /\ 1 \in 1..Len(toBackend)
      /\ job'[m.corr].pc = "run" /\ job'[m.corr].kind = m.kind /\ job'[m.corr].sidx = m.sidx
      /\ \A d \in Corrs : d # m.corr => job'[d] = job[d]
      /\ Len(toBackend) \in Nat \ {0}
      /\ \A j \in 1..Len(toBackend') : toBackend'[j] = toBackend[j + 1] /\ j + 1 \in 2..Len(toBackend)
  BY DispatchIs
<1>2. UNCHANGED <<in_flight, next_corr, connected, asked, answered, upset, toTui, sessions>>
  BY <1>1 DEF backendOnly, tuiVars, histVars
<1>3. \A c \in Corrs : job'[c].kind = job[c].kind
  BY <1>1 DEF Core, QueueInv
<1>4. Grows
  BY <1>1, <1>2, Basics DEF Grows
<1>5. SUFFICES ASSUME "deleted" \notin upset
               PROVE  /\ \A j \in 1..Len(toBackend') : Dest(toBackend'[j].sidx, toBackend'[j].corr)
                      /\ \A c \in Corrs : job'[c].pc \notin {"none", "queued", "done"} =>
                           Dest(job'[c].sidx, c)
                      /\ \A j \in 1..Len(toTui) :
                           toTui[j].type \in {"REP_FINAL", "SESSION_RENAME"} =>
                             Dest(toTui[j].sidx, toTui[j].corr)
                      /\ \A k \in Slots : TurnEntry(k) => Dest(in_flight[k].sidx, in_flight[k].corr)
  BY <1>2, <1>3, <1>4 DEF DestInv, Dest, Runs, TurnEntry, Chat, Count
<1>6. /\ \A j \in 1..Len(toBackend) : Dest(toBackend[j].sidx, toBackend[j].corr)
      /\ \A c \in Corrs : Runs(c) => Dest(job[c].sidx, c)
      /\ \A j \in 1..Len(toTui) : toTui[j].type \in {"REP_FINAL", "SESSION_RENAME"} =>
           Dest(toTui[j].sidx, toTui[j].corr)
      /\ \A k \in Slots : TurnEntry(k) => Dest(in_flight[k].sidx, in_flight[k].corr)
  BY <1>5 DEF DestInv
<1>7. \A j \in 1..Len(toBackend') : Dest(toBackend'[j].sidx, toBackend'[j].corr)
  <2>1. \A j \in 1..Len(toBackend') : toBackend'[j] = toBackend[j + 1] /\ j + 1 \in 1..Len(toBackend)
    BY <1>1
  <2> QED
    BY <1>6, <2>1
<1>8. ASSUME NEW c \in Corrs, job'[c].pc \notin {"none", "queued", "done"}
      PROVE  Dest(job'[c].sidx, c)
  <2>1. CASE c = m.corr
    BY <1>1, <1>6, <2>1
  <2>2. CASE c # m.corr
    BY <1>1, <1>6, <1>8, <2>2 DEF Runs
  <2> QED
    BY <2>1, <2>2
<1> QED
  BY <1>6, <1>7, <1>8

LEMMA DestThread ==
    ASSUME TypesInv, Core, DestInv, NEW c \in Corrs, NEW to, NEW subs, ThreadMove(c, to, subs)
    PROVE  DestInv' /\ Grows
<1>1. /\ Stable
      /\ UNCHANGED <<sessions, in_flight, next_corr, connected, asked, answered, upset, toBackend>>
      /\ job'[c].pc = to /\ job'[c].kind = job[c].kind /\ job'[c].sidx = job[c].sidx
      /\ \A d \in Corrs : d # c => job'[d] = job[d]
  BY ThreadMoveIs
<1>2. \/ toTui' = toTui
      \/ \E m \in Message :
           /\ Says(c, to, m) /\ Len(toTui) \in Nat
           /\ Len(toTui') = Len(toTui) + 1
           /\ \A j \in 1..Len(toTui) : toTui'[j] = toTui[j]
           /\ toTui'[Len(toTui) + 1] = m
           /\ \A j \in 1..(Len(toTui) + 1) : j \in 1..Len(toTui) \/ j = Len(toTui) + 1
  BY ThreadMoveIs
<1>3. \A d \in Corrs : job'[d].kind = job[d].kind
  BY <1>1
<1>4. Grows
  BY <1>1, Basics DEF Grows
<1>5. SUFFICES ASSUME "deleted" \notin upset
               PROVE  /\ \A j \in 1..Len(toBackend) : Dest(toBackend[j].sidx, toBackend[j].corr)
                      /\ \A d \in Corrs : job'[d].pc \notin {"none", "queued", "done"} =>
                           Dest(job'[d].sidx, d)
                      /\ \A j \in 1..Len(toTui') :
                           toTui'[j].type \in {"REP_FINAL", "SESSION_RENAME"} =>
                             Dest(toTui'[j].sidx, toTui'[j].corr)
                      /\ \A k \in Slots : TurnEntry(k) => Dest(in_flight[k].sidx, in_flight[k].corr)
  BY <1>1, <1>3, <1>4 DEF DestInv, Dest, Runs, TurnEntry, Chat, Count
<1>6. /\ \A j \in 1..Len(toBackend) : Dest(toBackend[j].sidx, toBackend[j].corr)
      /\ \A d \in Corrs : Runs(d) => Dest(job[d].sidx, d)
      /\ \A j \in 1..Len(toTui) : toTui[j].type \in {"REP_FINAL", "SESSION_RENAME"} =>
           Dest(toTui[j].sidx, toTui[j].corr)
      /\ \A k \in Slots : TurnEntry(k) => Dest(in_flight[k].sidx, in_flight[k].corr)
  BY <1>5 DEF DestInv
<1>7. Runs(c) /\ Dest(job[c].sidx, c)
  BY <1>6 DEF ThreadMove
<1>8. ASSUME NEW d \in Corrs, job'[d].pc \notin {"none", "queued", "done"}
      PROVE  Dest(job'[d].sidx, d)
  <2>1. CASE d = c
    BY <1>1, <1>7, <2>1
  <2>2. CASE d # c
    BY <1>1, <1>6, <1>8, <2>2 DEF Runs
  <2> QED
    BY <2>1, <2>2
<1>9. \A j \in 1..Len(toTui') : toTui'[j].type \in {"REP_FINAL", "SESSION_RENAME"} =>
        Dest(toTui'[j].sidx, toTui'[j].corr)
  <2>1. CASE toTui' = toTui
    BY <1>6, <2>1
  <2>2. ASSUME NEW m \in Message,
               /\ Says(c, to, m) /\ Len(toTui) \in Nat
               /\ Len(toTui') = Len(toTui) + 1
               /\ \A j \in 1..Len(toTui) : toTui'[j] = toTui[j]
               /\ toTui'[Len(toTui) + 1] = m
               /\ \A j \in 1..(Len(toTui) + 1) : j \in 1..Len(toTui) \/ j = Len(toTui) + 1
        PROVE  \A j \in 1..Len(toTui') : toTui'[j].type \in {"REP_FINAL", "SESSION_RENAME"} =>
                 Dest(toTui'[j].sidx, toTui'[j].corr)
    <3>1. m.type \in {"REP_FINAL", "SESSION_RENAME"} => Dest(m.sidx, m.corr)
      BY <1>7, <2>2 DEF Says, Answer
    <3> QED
      BY <1>6, <2>2, <3>1
  <2> QED
    BY <1>2, <2>1, <2>2
<1> QED
  BY <1>6, <1>8, <1>9

\* When all is quiet, no index is on its way.
LEMMA DestDelete ==
    ASSUME TypesInv, Core, Delete
    PROVE  DestInv'
<1>1. UNCHANGED <<toBackend, toTui, in_flight, job, asked>>
      /\ upset' = IF Quiet THEN upset ELSE upset \cup {"deleted"}
  BY DeleteLocal DEF Local
<1>2. CASE ~Quiet
  BY <1>1, <1>2 DEF DestInv
<1>3. CASE Quiet
  <2>1. Len(toBackend) = 0 /\ Len(toTui) = 0 /\ \A c \in Corrs : job[c].pc \in {"none", "done"}
    BY <1>3 DEF Quiet
  <2>2. ASSUME NEW k \in Slots, TurnEntry(k)
        PROVE  FALSE
    <3> DEFINE c == in_flight[k].corr
    <3>1. c \in Corrs /\ Chat(c) /\ c \notin answered /\ c \in 1..Len(asked) /\ c # 0
      BY <2>2, KnownCorrs, Bounds DEF TurnEntry, Core, TableInv, Corrs
    <3>2. connected
      BY <3>1 DEF Core, DownInv, Used
    <3>3. c \in Turns \ answered
      BY <3>1 DEF Turns, Chat
    <3>4. job[c].pc # "none"
      <4>1. c < next_corr /\ c \in Nat /\ next_corr \in Nat
        BY <3>1, Basics
      <4> QED
        BY <3>1, <4>1 DEF Core, JobInv
    <3>5. Sent(c)
      BY <2>1, <3>1, <3>4 DEF Sent
    <3>6. OnItsWay(c)
      BY <3>2, <3>3, <3>5 DEF Core, MsgsInv
    <3> QED
      BY <2>1, <3>6 DEF OnItsWay
  <2> QED
    BY <1>1, <2>1, <2>2 DEF DestInv, Runs, TurnEntry, Chat
<1> QED
  BY <1>2, <1>3
-----------------------------------------------------------------------------
(* Replies, errors and topics are in the session of their request.         *)

\* What a message m of session id must be, whose request asks tells.
Home(m, id, u, asks) ==
    /\ m.kind \in {"reply", "error"} => m.corr \in 1..Len(asks)
    /\ m.kind = "reply" \/ (m.kind = "error" /\ "overflow" \notin u) => asks[m.corr] = id

TopicHome(s, asks) == s.topic # 0 => s.topic \in 1..Len(asks) /\ asks[s.topic] = s.id

HomeInv ==
    "deleted" \notin upset =>
        \A i \in 1..Count :
            /\ TopicHome(sessions[i], asked)
            /\ \A k \in 1..Len(ChatOf(i)) : Home(ChatOf(i)[k], sessions[i].id, upset, asked)

LEMMA HomeIs ==
    ASSUME TypesInv, HomeInv
    PROVE  ReplyInItsSession
<1>1. ASSUME "deleted" \notin upset, NEW i \in 1..Count
      PROVE  /\ sessions[i].topic # 0 => asked[sessions[i].topic] = sessions[i].id
             /\ \A m \in ToSet(ChatOf(i)) :
                   \/ m.kind = "reply"
                   \/ m.kind = "error" /\ "overflow" \notin upset
                   => asked[m.corr] = sessions[i].id
  <2>1. ChatOf(i) \in Seq(ChatMsg)
    BY Basics
  <2>2. \A m \in ToSet(ChatOf(i)) : \E k \in 1..Len(ChatOf(i)) : m = ChatOf(i)[k]
    BY <2>1 DEF ToSet
  <2> QED
    BY <1>1, <2>2 DEF HomeInv, Home, TopicHome
<1> QED
  BY <1>1 DEF ReplyInItsSession

LEMMA HomeGrows ==
    ASSUME TypesInv, Grows
    PROVE  /\ \A m, id : Home(m, id, upset, asked) => Home(m, id, upset', asked')
           /\ \A s : TopicHome(s, asked) => TopicHome(s, asked')
           /\ "deleted" \notin upset' => "deleted" \notin upset
<1>1. Len(asked) \in Nat /\ 1..Len(asked) \subseteq 1..Len(asked')
  <2>1. Len(asked) \in Nat
    BY LenProperties DEF TypesInv, TypeOK
  <2> QED
    BY <2>1 DEF Grows
<1> QED
  BY <1>1 DEF Grows, Home, TopicHome

\* The chat of session i changes, to messages that belong there.
LEMMA HomeEdited ==
    ASSUME TypesInv, HomeInv, Grows, NEW i, NEW chat, Edited(i, chat),
           "deleted" \notin upset' =>
             \A k \in 1..Len(chat) : Home(chat[k], sessions[i].id, upset', asked')
    PROVE  HomeInv'
<1>1. /\ Stable /\ Count' = Count /\ i \in 1..Count
      /\ \A j \in 1..Count : /\ sessions'[j].topic = sessions[j].topic
                             /\ sessions'[j].chat = IF j = i THEN chat ELSE sessions[j].chat
  BY EditedIs DEF Edited
<1>2. \A j \in 1..Count : sessions'[j].id = sessions[j].id
  BY <1>1 DEF Stable
<1>3. ASSUME "deleted" \notin upset', NEW j \in 1..Count
      PROVE  /\ TopicHome(sessions'[j], asked')
             /\ \A k \in 1..Len(sessions'[j].chat) :
                  Home(sessions'[j].chat[k], sessions'[j].id, upset', asked')
  <2>1. /\ TopicHome(sessions[j], asked)
        /\ \A k \in 1..Len(sessions[j].chat) :
             Home(sessions[j].chat[k], sessions[j].id, upset, asked)
    BY <1>3, HomeGrows DEF HomeInv, ChatOf
  <2>2. TopicHome(sessions'[j], asked')
    <3>1. TopicHome(sessions[j], asked')
      BY <2>1, HomeGrows
    <3> QED
      BY <1>1, <1>2, <3>1 DEF TopicHome
  <2>3. \A k \in 1..Len(sessions[j].chat) :
          Home(sessions[j].chat[k], sessions[j].id, upset', asked')
    BY <2>1, HomeGrows
  <2>4. \A k \in 1..Len(sessions'[j].chat) :
          Home(sessions'[j].chat[k], sessions'[j].id, upset', asked')
    BY <1>1, <1>2, <1>3, <2>3
  <2> QED
    BY <2>2, <2>4
<1> QED
  BY <1>1, <1>3 DEF HomeInv, ChatOf

LEMMA HomeNamed ==
    ASSUME TypesInv, HomeInv, Grows, Count' = Count,
           \A j \in 1..Count :
             /\ sessions'[j].chat = sessions[j].chat
             /\ sessions'[j].topic \in {0, sessions[j].topic} \/ TopicHome(sessions'[j], asked')
    PROVE  HomeInv'
<1>1. \A j \in 1..Count : sessions'[j].id = sessions[j].id
  BY DEF Grows, Stable
<1>2. ASSUME "deleted" \notin upset', NEW j \in 1..Count
      PROVE  /\ TopicHome(sessions'[j], asked')
             /\ \A k \in 1..Len(sessions'[j].chat) :
                  Home(sessions'[j].chat[k], sessions'[j].id, upset', asked')
  <2>1. /\ TopicHome(sessions[j], asked')
        /\ \A k \in 1..Len(sessions[j].chat) :
             Home(sessions[j].chat[k], sessions[j].id, upset', asked')
    BY <1>2, HomeGrows DEF HomeInv, ChatOf
  <2> QED
    BY <1>1, <2>1 DEF TopicHome
<1> QED
  BY <1>2 DEF HomeInv, ChatOf

\* Every session is an old one or new and empty.
LEMMA HomeMoved ==
    ASSUME TypesInv, HomeInv, UNCHANGED asked, "deleted" \notin upset' => UNCHANGED upset,
           \A j \in 1..Count' :
              \/ \E i \in 1..Count : sessions'[j] = sessions[i]
              \/ sessions'[j].chat = <<>> /\ sessions'[j].topic = 0
    PROVE  HomeInv'
<1>1. ASSUME "deleted" \notin upset', NEW j \in 1..Count'
      PROVE  /\ TopicHome(sessions'[j], asked')
             /\ \A k \in 1..Len(sessions'[j].chat) :
                  Home(sessions'[j].chat[k], sessions'[j].id, upset', asked')
  <2>1. CASE sessions'[j].chat = <<>> /\ sessions'[j].topic = 0
    BY <2>1 DEF TopicHome
  <2>2. ASSUME NEW i \in 1..Count, sessions'[j] = sessions[i]
        PROVE  /\ TopicHome(sessions'[j], asked')
               /\ \A k \in 1..Len(sessions'[j].chat) :
                    Home(sessions'[j].chat[k], sessions'[j].id, upset', asked')
    BY <1>1, <2>2 DEF HomeInv, ChatOf
  <2> QED
    BY <2>1, <2>2
<1> QED
  BY <1>1 DEF HomeInv, ChatOf

LEMMA HomeAppend ==
    ASSUME TypesInv, HomeInv, Grows, NEW i \in 1..Count, NEW kind \in {"system", "user", "dots"},
           NEW c \in 0..MaxCorr,
           Edited(i, Append(ChatOf(i), M(kind, c)))
    PROVE  HomeInv'
<1> DEFINE m == M(kind, c)
           chat == Append(ChatOf(i), m)
<1>1. ChatOf(i) \in Seq(ChatMsg) /\ m \in ChatMsg /\ m.kind \notin {"reply", "error"}
  BY Basics, MIsMsg
<1> HIDE DEF m
<1>2. /\ Len(ChatOf(i)) \in Nat /\ Len(chat) = Len(ChatOf(i)) + 1
      /\ \A k \in 1..Len(ChatOf(i)) : chat[k] = ChatOf(i)[k]
      /\ chat[Len(ChatOf(i)) + 1] = m
      /\ \A k \in 1..(Len(ChatOf(i)) + 1) : k \in 1..Len(ChatOf(i)) \/ k = Len(ChatOf(i)) + 1
  BY <1>1, AppendIs
<1> HIDE DEF chat
<1>3. ASSUME "deleted" \notin upset', NEW k \in 1..Len(chat)
      PROVE  Home(chat[k], sessions[i].id, upset', asked')
  <2>1. CASE k \in 1..Len(ChatOf(i))
    BY <1>2, <1>3, <2>1, HomeGrows DEF HomeInv
  <2>2. CASE k = Len(ChatOf(i)) + 1
    BY <1>1, <1>2, <2>2 DEF Home
  <2> QED
    BY <1>2, <2>1, <2>2
<1> QED
  BY <1>3, HomeEdited DEF chat, m

LEMMA HomeSubmit ==
    ASSUME TypesInv, HomeInv, Grows, next_corr \in Corrs,
           Edited(active, ChatOf(active) \o <<M("user", next_corr), M("dots", next_corr)>>)
    PROVE  HomeInv'
<1> DEFINE u == M("user", next_corr)
           d == M("dots", next_corr)
           chat == ChatOf(active) \o <<u, d>>
<1>1. /\ ChatOf(active) \in Seq(ChatMsg) /\ active \in 1..Count
      /\ u.kind \notin {"reply", "error"} /\ d.kind \notin {"reply", "error"}
  BY Basics DEF M
<1>2. /\ \A k \in 1..Len(ChatOf(active)) : chat[k] = ChatOf(active)[k]
      /\ chat[Len(ChatOf(active)) + 1] = u /\ chat[Len(ChatOf(active)) + 2] = d
      /\ \A k \in 1..Len(chat) : \/ k \in 1..Len(ChatOf(active)) \/ k = Len(ChatOf(active)) + 1
                                 \/ k = Len(ChatOf(active)) + 2
  BY <1>1, AskedChatIs
<1> HIDE DEF chat, u, d
<1>3. ASSUME "deleted" \notin upset', NEW k \in 1..Len(chat)
      PROVE  Home(chat[k], sessions[active].id, upset', asked')
  <2>1. CASE k \in 1..Len(ChatOf(active))
    BY <1>1, <1>2, <1>3, <2>1, HomeGrows DEF HomeInv
  <2>2. CASE k = Len(ChatOf(active)) + 1 \/ k = Len(ChatOf(active)) + 2
    BY <1>1, <1>2, <2>2 DEF Home
  <2> QED
    BY <1>2, <2>1, <2>2
<1> QED
  BY <1>3, HomeEdited DEF chat, u, d

\* The answer of turn c comes to the session the turn was asked from.
LEMMA HomeReplaced ==
    ASSUME TypesInv, HomeInv, Grows, NEW i \in 1..Count, NEW kind \in {"reply", "error"},
           NEW c \in 1..Len(asked),
           Edited(i, ReplaceLast(ChatOf(i), M(kind, c))),
           "deleted" \notin upset' /\ (kind = "reply" \/ "overflow" \notin upset') =>
             asked[c] = sessions[i].id
    PROVE  HomeInv'
<1> DEFINE m == M(kind, c)
           chat == ReplaceLast(ChatOf(i), m)
<1>1. ChatOf(i) \in Seq(ChatMsg) /\ m \in ChatMsg /\ m.kind = kind /\ m.corr = c
  <2>1. c \in Corrs
    BY Basics
  <2>2. c \in 0..MaxCorr
    BY ONLY <2>1, CorrIs
  <2> QED
    BY SMTT(30), <2>2, Basics, MIsMsg
<1> HIDE DEF m
<1>2. /\ \A k \in 1..Len(chat) : chat[k] = IF k = Len(chat) THEN m ELSE ChatOf(i)[k]
      /\ \A k \in 1..Len(chat) : k = Len(chat) \/ k \in 1..Len(ChatOf(i))
  BY <1>1, ReplaceLastIs
<1> HIDE DEF chat
<1>3. asked'[c] = asked[c] /\ c \in 1..Len(asked')
  <2>1. Len(asked) \in Nat
    BY LenProperties DEF TypesInv, TypeOK
  <2> QED
    BY <2>1 DEF Grows
<1>4. ASSUME "deleted" \notin upset', NEW k \in 1..Len(chat)
      PROVE  Home(chat[k], sessions[i].id, upset', asked')
  <2>1. CASE k # Len(chat)
    BY <1>2, <1>4, <2>1, HomeGrows DEF HomeInv
  <2>2. CASE k = Len(chat)
    BY <1>1, <1>2, <1>3, <1>4, <2>2 DEF Home
  <2> QED
    BY <2>1, <2>2
<1> QED
  BY <1>4, HomeEdited DEF chat, m
-----------------------------------------------------------------------------
(* Turns and placeholders.                                                 *)

\* The turns that have not been answered.
Pending == Turns \ answered

\* What the chat of session id must be, the turns in open, whose sessions asks
\* tells, not being answered.
Fits(chat, id, open, asks) ==
    /\ \A k \in 1..Len(chat) : chat[k].kind = "dots" =>
         k = Len(chat) /\ chat[k].corr \in open /\ asks[chat[k].corr] = id
    /\ (\E c \in open : asks[c] = id) => chat = <<>> \/ Dots(chat)

TalkInv ==
    /\ upset \cap {"deleted", "overflow"} = {} =>
         \A c, d \in Pending : asked[c] = asked[d] => c = d
    /\ upset = {} =>
         \A i \in 1..Count : Fits(ChatOf(i), sessions[i].id, Pending, asked)

LEMMA TalkIs ==
    ASSUME TalkInv
    PROVE  OneTurnPerSession /\ PlaceholderIsPending /\ ChatInv
<1>1. OneTurnPerSession
  BY DEF TalkInv, OneTurnPerSession, Pending, Outstanding
<1>2. PlaceholderIsPending
  BY DEF TalkInv, PlaceholderIsPending, Fits, Pending, Outstanding
<1>3. ChatInv
  BY DEF TalkInv, ChatInv, Fits, Pending
<1> QED
  BY <1>1, <1>2, <1>3

\* No turn is asked or answered, and every session is an old one, or new and empty.
LEMMA TalkMoved ==
    ASSUME TypesInv, TalkInv, Pending' = Pending, UNCHANGED asked, upset \subseteq upset',
           \A j \in 1..Count' :
              \/ \E i \in 1..Count : /\ sessions'[j].id = sessions[i].id
                                     /\ sessions'[j].chat = sessions[i].chat
              \/ sessions'[j].chat = <<>>
    PROVE  TalkInv'
<1>1. upset' \cap {"deleted", "overflow"} = {} =>
        \A c, d \in Pending' : asked'[c] = asked'[d] => c = d
  BY DEF TalkInv
<1>2. ASSUME upset' = {}, NEW j \in 1..Count'
      PROVE  Fits(sessions'[j].chat, sessions'[j].id, Pending', asked')
  <2>1. CASE sessions'[j].chat = <<>>
    BY <2>1 DEF Fits
  <2>2. ASSUME NEW i \in 1..Count, sessions'[j].id = sessions[i].id,
               sessions'[j].chat = sessions[i].chat
        PROVE  Fits(sessions'[j].chat, sessions'[j].id, Pending', asked')
    <3>1. Fits(sessions[i].chat, sessions[i].id, Pending, asked)
      BY <1>2 DEF TalkInv, ChatOf
    <3> QED
      BY <2>2, <3>1
  <2> QED
    BY <2>1, <2>2
<1> QED
  BY <1>1, <1>2 DEF TalkInv, ChatOf

\* The chat of one session changes, and no turn is asked.
LEMMA TalkEdited ==
    ASSUME TypesInv, TalkInv, Pending' \subseteq Pending, UNCHANGED asked, upset \subseteq upset',
           NEW i, NEW chat, Edited(i, chat),
           upset' = {} => Fits(chat, sessions[i].id, Pending', asked),
           \A c \in Pending \ Pending' : upset' = {} => asked[c] = sessions[i].id
    PROVE  TalkInv'
<1>1. /\ Stable /\ Count' = Count /\ i \in 1..Count
      /\ \A j \in 1..Count : sessions'[j].chat = IF j = i THEN chat ELSE sessions[j].chat
  BY EditedIs DEF Edited
<1>2. \A j \in 1..Count : sessions'[j].id = sessions[j].id
  BY <1>1 DEF Stable
<1>3. upset' \cap {"deleted", "overflow"} = {} =>
        \A c, d \in Pending' : asked'[c] = asked'[d] => c = d
  BY DEF TalkInv
<1>4. ASSUME upset' = {}, NEW j \in 1..Count
      PROVE  Fits(sessions'[j].chat, sessions'[j].id, Pending', asked')
  <2>1. CASE j = i
    BY <1>1, <1>2, <1>4, <2>1
  <2>2. CASE j # i
    <3>1. Fits(sessions[j].chat, sessions[j].id, Pending, asked)
      BY <1>4 DEF TalkInv, ChatOf
    <3>2. sessions[j].id # sessions[i].id
      BY <1>1, <2>2 DEF TypesInv
    <3>3. \A c \in Pending : asked[c] = sessions[j].id => c \in Pending'
      BY <1>4, <3>2
    <3>4. Fits(sessions[j].chat, sessions[j].id, Pending', asked')
      BY <3>1, <3>3 DEF Fits
    <3> QED
      BY <1>1, <1>2, <2>2, <3>4
  <2> QED
    BY <2>1, <2>2
<1> QED
  BY <1>1, <1>3, <1>4 DEF TalkInv, ChatOf

\* A chat that waits for no reply has no placeholder, and a system message
\* brings none.
LEMMA NoDots ==
    ASSUME TypesInv, TalkInv, upset = {}, NEW i \in 1..Count,
           \A c \in Pending : asked[c] # sessions[i].id
    PROVE  \A k \in 1..Len(ChatOf(i)) : ChatOf(i)[k].kind # "dots"
BY DEF TalkInv, Fits

LEMMA NotWaiting ==
    ASSUME NEW i, Noted(i) = {}
    PROVE  upset = {} /\ \A c \in Pending : asked[c] # sessions[i].id
BY DEF Noted, Waiting, Pending, Turns

LEMMA AppendFits ==
    ASSUME NEW chat \in Seq(ChatMsg), NEW m \in ChatMsg, m.kind # "dots",
           \A k \in 1..Len(chat) : chat[k].kind # "dots",
           NEW id, NEW open, NEW asks, \A c \in open : asks[c] # id
    PROVE  Fits(Append(chat, m), id, open, asks)
<1>1. /\ Len(chat) \in Nat /\ Len(Append(chat, m)) = Len(chat) + 1
      /\ \A k \in 1..Len(chat) : Append(chat, m)[k] = chat[k]
      /\ Append(chat, m)[Len(chat) + 1] = m
      /\ \A k \in 1..(Len(chat) + 1) : k \in 1..Len(chat) \/ k = Len(chat) + 1
  BY AppendIs
<1>2. \A k \in 1..Len(Append(chat, m)) : Append(chat, m)[k].kind # "dots"
  BY <1>1
<1> QED
  BY <1>2 DEF Fits

LEMMA TalkNoted ==
    ASSUME TypesInv, TalkInv, Pending' = Pending, UNCHANGED asked, upset \subseteq upset',
           Edited(active, Append(ChatOf(active), M("system", 0))), Noted(active) \subseteq upset'
    PROVE  TalkInv'
<1> DEFINE chat == Append(ChatOf(active), M("system", 0))
<1>1. /\ active \in 1..Count /\ ChatOf(active) \in Seq(ChatMsg)
      /\ M("system", 0) \in ChatMsg /\ M("system", 0).kind = "system"
  BY Basics, MIsMsg, Bounds
<1>2. ASSUME upset' = {}
      PROVE  Fits(chat, sessions[active].id, Pending, asked)
  <2>1. upset = {} /\ \A c \in Pending : asked[c] # sessions[active].id
    BY <1>2, NotWaiting
  <2>2. \A k \in 1..Len(ChatOf(active)) : ChatOf(active)[k].kind # "dots"
    BY <1>1, <2>1, NoDots
  <2> QED
    BY <1>1, <2>1, <2>2, AppendFits
<1> HIDE DEF chat
<1> QED
  BY <1>2, TalkEdited DEF chat

\* The chat whose turn was answered.
LEMMA ReplaceLastNew ==
    ASSUME NEW old \in Seq(ChatMsg), NEW new \in ChatMsg
    PROVE  /\ \A k \in 1..Len(ReplaceLast(old, new)) : ReplaceLast(old, new)[k] =
                IF k = Len(ReplaceLast(old, new)) THEN new ELSE old[k]
           /\ \A k \in 1..Len(ReplaceLast(old, new)) :
                k = Len(ReplaceLast(old, new)) \/ k \in 1..Len(old)
           /\ old # <<>> => Len(ReplaceLast(old, new)) = Len(old)
<1>1. Len(ReplaceLast(old, new)) = IF old = <<>> THEN 1 ELSE Len(old)
  BY ONLY old \in Seq(ChatMsg), new \in ChatMsg, ReplaceLastIs
<1>2. \A k \in 1..Len(ReplaceLast(old, new)) : ReplaceLast(old, new)[k] =
                IF k = Len(ReplaceLast(old, new)) THEN new ELSE old[k]
  BY ONLY old \in Seq(ChatMsg), new \in ChatMsg, ReplaceLastIs
<1>3. \A k \in 1..Len(ReplaceLast(old, new)) :
                k = Len(ReplaceLast(old, new)) \/ k \in 1..Len(old)
  BY ONLY old \in Seq(ChatMsg), new \in ChatMsg, ReplaceLastIs
<1>4. old # <<>> => Len(ReplaceLast(old, new)) = Len(old)
  BY ONLY <1>1
<1> QED
  BY ONLY <1>2, <1>3, <1>4

LEMMA TalkReplaced ==
    ASSUME TypesInv, TalkInv, NEW c \in Pending, Pending' = Pending \ {c}, UNCHANGED asked,
           upset' = upset, NEW i \in 1..Count, NEW kind \in {"reply", "error"},
           Edited(i, ReplaceLast(ChatOf(i), M(kind, c))),
           upset = {} => asked[c] = sessions[i].id
    PROVE  TalkInv'
<1> DEFINE m == M(kind, c)
           chat == ReplaceLast(ChatOf(i), m)
<1>1. ChatOf(i) \in Seq(ChatMsg) /\ m \in ChatMsg /\ m.kind = kind /\ Len(ChatOf(i)) \in Nat
  <2>1. c \in Corrs
    BY Basics DEF Pending
  <2>2. c \in 0..MaxCorr
    BY ONLY <2>1, CorrIs
  <2> QED
    BY SMTT(30), <2>2, Basics, MIsMsg
<1> HIDE DEF m
<1>2. /\ \A k \in 1..Len(chat) : chat[k] = IF k = Len(chat) THEN m ELSE ChatOf(i)[k]
      /\ \A k \in 1..Len(chat) : k = Len(chat) \/ k \in 1..Len(ChatOf(i))
      /\ ChatOf(i) # <<>> => Len(chat) = Len(ChatOf(i))
  <2> PICK old : old = ChatOf(i)
    OBVIOUS
  <2> PICK new : new = m
    OBVIOUS
  <2>1. old \in Seq(ChatMsg) /\ new \in ChatMsg
    BY <1>1
  <2>2. /\ \A k \in 1..Len(ReplaceLast(old, new)) : ReplaceLast(old, new)[k] =
              IF k = Len(ReplaceLast(old, new)) THEN new ELSE old[k]
        /\ \A k \in 1..Len(ReplaceLast(old, new)) : k = Len(ReplaceLast(old, new)) \/ k \in 1..Len(old)
        /\ old # <<>> => Len(ReplaceLast(old, new)) = Len(old)
    BY ONLY <2>1, ReplaceLastNew
  <2> QED
    BY <2>2
<1>3. ASSUME upset' = {}
      PROVE  Fits(chat, sessions[i].id, Pending', asked)
  <2>1. asked[c] = sessions[i].id /\ Fits(ChatOf(i), sessions[i].id, Pending, asked)
    BY <1>3 DEF TalkInv
  <2>2. \A d \in Pending' : asked[d] # sessions[i].id
    BY <1>3, <2>1 DEF TalkInv
  <2>3. ASSUME NEW k \in 1..Len(chat)
        PROVE  chat[k].kind # "dots"
    <3>1. CASE k = Len(chat)
      BY <1>1, <1>2, <3>1
    <3>2. CASE k # Len(chat)
      <4>1. k \in 1..Len(ChatOf(i)) /\ chat[k] = ChatOf(i)[k]
        BY <1>2, <3>2
      <4>2. ChatOf(i) # <<>>
        BY <4>1
      <4>3. k # Len(ChatOf(i))
        BY <1>2, <3>2, <4>2
      <4> QED
        BY <2>1, <4>1, <4>3 DEF Fits
    <3> QED
      BY <3>1, <3>2
  <2> HIDE DEF chat
  <2> QED
    BY <2>2, <2>3 DEF Fits
<1>4. \A d \in Pending \ Pending' : upset' = {} => asked[d] = sessions[i].id
  OBVIOUS
<1> HIDE DEF chat
<1> QED
  BY <1>3, <1>4, TalkEdited DEF chat, m
\* The input is locked while a turn of the active session is under way.
LEMMA NoneOpen ==
    ASSUME TypesInv, Core, DestInv, connected, ~SessionActive(active),
           upset \cap {"deleted", "overflow"} = {}
    PROVE  \A c \in Pending : asked[c] # sessions[active].id
<1>1. SUFFICES ASSUME NEW c \in Pending, asked[c] = sessions[active].id
               PROVE  FALSE
  OBVIOUS
<1>2. c \in Turns \ answered /\ c \in Corrs /\ c # 0 /\ Chat(c)
  BY <1>1, TurnIs, Bounds DEF Pending, Corrs
<1>3. PICK k \in Slots : in_flight[k].corr = c
  BY <1>2 DEF Core, TableInv
<1>4. TurnEntry(k) /\ Used(k)
  BY <1>2, <1>3 DEF TurnEntry, Used
<1>5. in_flight[k].depth = 0
  BY <1>4 DEF Core, TableInv
<1>6. Dest(in_flight[k].sidx, c)
  BY <1>3, <1>4 DEF DestInv
<1>7. in_flight[k].sidx = active
  BY <1>1, <1>6, Basics DEF TypesInv, Dest
<1> QED
  BY <1>4, <1>5, <1>7 DEF SessionActive

\* Pending after a request was asked.
LEMMA PendingAsked ==
    ASSUME TypesInv, Core, NEW kind, NEW f, NEW chat, Asked(kind, f, chat)
    PROVE  /\ Pending' = IF kind = "chat" THEN Pending \cup {next_corr} ELSE Pending
           /\ next_corr \notin Pending
           /\ \A c \in Pending : asked'[c] = asked[c]
<1> PICK n : n = next_corr
  OBVIOUS
<1>1. /\ \A d \in Corrs : d # n => job'[d] = job[d]
      /\ job'[n].kind = kind /\ Len(asked') = n
      /\ \A c \in 1..(n - 1) : asked'[c] = asked[c]
  BY AskedIs
<1>2. n \in Corrs /\ n \in Nat /\ Len(asked) = n - 1 /\ UNCHANGED answered /\ 1..n \subseteq Corrs
  <2>1. n \in Corrs /\ UNCHANGED answered
    BY DEF Asked
  <2>2. n \in Nat /\ Len(asked) = n - 1
    BY Basics
  <2> QED
    BY <2>1, <2>2, Bounds DEF Corrs
<1>3. \A c \in 1..n : c # n <=> c \in 1..(n - 1)
  BY <1>2
<1>4. n \notin answered
  BY <1>2 DEF Core, JobInv, Sent
<1>5. n \notin 1..(n - 1) /\ n \in 1..n /\ 1..(n - 1) \subseteq 1..n
  BY <1>2, Bounds DEF Corrs
<1>6. \A c : c \in Turns' <=> c \in Turns \/ (c = n /\ kind = "chat")
  BY <1>1, <1>2, <1>3, <1>5 DEF Turns
<1>7. \A c \in Turns : c \in 1..(n - 1)
  BY <1>2 DEF Turns
<1> QED
  BY <1>1, <1>2, <1>4, <1>5, <1>6, <1>7 DEF Pending

LEMMA TalkFs ==
    ASSUME TypesInv, Core, TalkInv, NEW op \in FsOps, FsCommand(op)
    PROVE  TalkInv'
<1> DEFINE chat == Append(ChatOf(active), M("system", 0))
<1>1. /\ Asked(op, FALSE, chat) /\ op # "chat" /\ Noted(active) \subseteq upset'
      /\ upset \subseteq upset' /\ Edited(active, chat)
  BY FsCommandIs DEF Asked
<1>2. Pending' = Pending /\ \A c \in Pending : asked'[c] = asked[c]
  BY <1>1, PendingAsked
<1>3. /\ Count' = Count /\ active \in 1..Count
      /\ \A j \in 1..Count : /\ sessions'[j].id = sessions[j].id
                             /\ sessions'[j].chat = IF j = active THEN chat ELSE sessions[j].chat
  BY <1>1, EditedIs DEF Stable, Edited
<1>4. upset' \cap {"deleted", "overflow"} = {} =>
        \A c, d \in Pending' : asked'[c] = asked'[d] => c = d
  BY <1>1, <1>2 DEF TalkInv
<1>5. ASSUME upset' = {}, NEW j \in 1..Count
      PROVE  Fits(sessions'[j].chat, sessions'[j].id, Pending', asked')
  <2>1. Fits(sessions[j].chat, sessions[j].id, Pending, asked) /\ upset = {}
    BY <1>1, <1>5 DEF TalkInv, ChatOf
  <2>2. CASE j # active
    BY <1>2, <1>3, <2>1, <2>2 DEF Fits
  <2>3. CASE j = active
    <3>1. \A c \in Pending : asked[c] # sessions[active].id
      BY <1>1, <1>5, NotWaiting
    <3>2. \A k \in 1..Len(ChatOf(active)) : ChatOf(active)[k].kind # "dots"
      BY <1>3, <2>1, <3>1, NoDots
    <3>3. \A c \in Pending : asked'[c] # sessions[active].id
      BY <1>2, <3>1
    <3>4. ChatOf(active) \in Seq(ChatMsg) /\ M("system", 0) \in ChatMsg
          /\ M("system", 0).kind = "system"
      BY Basics, MIsMsg, Bounds
    <3>5. Fits(chat, sessions[active].id, Pending, asked')
      BY <3>2, <3>3, <3>4, AppendFits
    <3> QED
      BY <1>2, <1>3, <2>3, <3>5
  <2> QED
    BY <2>2, <2>3
<1> QED
  BY <1>3, <1>4, <1>5 DEF TalkInv, ChatOf

LEMMA TalkSubmit ==
    ASSUME TypesInv, Core, DestInv, TalkInv, Submit
    PROVE  TalkInv'
<1> DEFINE n == next_corr
           chat == ChatOf(active) \o <<M("user", n), M("dots", n)>>
           id == sessions[active].id
<1>1. PICK f \in BOOLEAN : /\ Asked("chat", f, chat)
                           /\ upset' = upset \cup Overflow /\ ~SessionActive(active)
  BY SubmitIs
<1>2. Pending' = Pending \cup {n} /\ n \notin Pending /\ \A c \in Pending : asked'[c] = asked[c]
  BY <1>1, PendingAsked
<1>3. /\ Count' = Count /\ active \in 1..Count
      /\ \A j \in 1..Count : /\ sessions'[j].id = sessions[j].id
                             /\ sessions'[j].chat = IF j = active THEN chat ELSE sessions[j].chat
  BY <1>1, EditedIs DEF Stable, Edited, Asked
<1>4. asked'[n] = id /\ connected /\ n \in Corrs
  BY <1>1, AskedIs DEF Asked
<1>5. ChatOf(active) \in Seq(ChatMsg)
  BY Basics
<1>6. /\ Len(chat) = Len(ChatOf(active)) + 2 /\ Len(ChatOf(active)) \in Nat
      /\ \A k \in 1..Len(ChatOf(active)) : chat[k] = ChatOf(active)[k]
      /\ chat[Len(ChatOf(active)) + 1].kind = "user"
      /\ chat[Len(ChatOf(active)) + 2].kind = "dots" /\ chat[Len(ChatOf(active)) + 2].corr = n
      /\ \A k \in 1..Len(chat) : \/ k \in 1..Len(ChatOf(active)) \/ k = Len(ChatOf(active)) + 1
                                 \/ k = Len(ChatOf(active)) + 2
  BY <1>4, <1>5, AskedChatIs DEF M
<1> HIDE DEF n, chat, id
<1>7. upset' \cap {"deleted", "overflow"} = {} => upset \cap {"deleted", "overflow"} = {}
  BY <1>1
<1>8. upset' \cap {"deleted", "overflow"} = {} => \A c \in Pending : asked[c] # id
  BY <1>1, <1>4, <1>7, NoneOpen DEF id
<1>9. upset' \cap {"deleted", "overflow"} = {} =>
        \A c, d \in Pending' : asked'[c] = asked'[d] => c = d
  BY <1>2, <1>4, <1>7, <1>8 DEF TalkInv
<1>10. ASSUME upset' = {}, NEW j \in 1..Count
       PROVE  Fits(sessions'[j].chat, sessions'[j].id, Pending', asked')
  <2>1. Fits(sessions[j].chat, sessions[j].id, Pending, asked) /\ upset = {}
    BY <1>1, <1>10 DEF TalkInv, ChatOf
  <2>2. CASE j # active
    <3>1. sessions[j].id # id
      BY <1>3, <2>2 DEF TypesInv, id
    <3>2. Fits(sessions[j].chat, sessions[j].id, Pending', asked')
      BY <1>2, <1>4, <2>1, <3>1 DEF Fits
    <3> QED
      BY <1>3, <2>2, <3>2
  <2>3. CASE j = active
    <3>1. \A k \in 1..Len(ChatOf(active)) : chat[k].kind # "dots"
      BY <1>3, <1>6, <1>8, <1>10, <2>1, NoDots DEF id
    <3>2. \A k \in 1..Len(chat) : chat[k].kind = "dots" => k = Len(chat)
      BY <1>6, <3>1
    <3>3. Fits(chat, id, Pending', asked')
      BY <1>2, <1>4, <1>6, <3>2 DEF Fits, Dots
    <3> QED
      BY <1>3, <2>3, <3>3 DEF id
  <2> QED
    BY <2>2, <2>3
<1> QED
  BY <1>3, <1>9, <1>10 DEF TalkInv, ChatOf
-----------------------------------------------------------------------------
(* The invariant, and what is kept of a chat, action by action.            *)

IInv == TypesInv /\ Core /\ DestInv /\ HomeInv /\ TalkInv

\* What was said in the chat old is still there in the chat new.
KeptChat(old, new) ==
    \A k \in 1..Len(old) : old[k].kind # "dots" => k <= Len(new) /\ new[k] = old[k]

Kept ==
    \A i \in 1..Count : \A j \in 1..Len(sessions') :
        sessions[i].id = sessions'[j].id => KeptChat(ChatOf(i), sessions'[j].chat)

LEMMA InitInv == Init => IInv
<1> SUFFICES ASSUME Init PROVE IInv
  OBVIOUS
<1>1. /\ MaxSessions \in Nat \ {0} /\ MaxInFlight \in Nat \ {0} /\ MaxIds \in Nat \ {0}
      /\ MaxCorr \in Nat /\ MaxSubs \in Nat /\ MaxCmds \in Nat
  BY Bounds
<1> DEFINE s == [id |-> 1, name |-> "default", topic |-> 0, chat |-> <<>>]
<1>2. s \in Session /\ s.id = 1 /\ s.chat = <<>> /\ s.topic = 0
  BY <1>1, EmptySeq DEF Session
<1> HIDE DEF s
<1>3. sessions = <<s>>
  BY DEF Init, s
<1>4. sessions \in Seq(Session) /\ Len(sessions) = 1 /\ sessions[1] = s
  BY ONLY <1>2, <1>3
<1>5. 1..Count = {1}
  BY <1>4 DEF Count
<1>6. TuiInv
  BY <1>1, <1>2, <1>4, <1>5 DEF Init, TuiInv, TuiTypes, SelectionValid
<1>7. TableType
  BY <1>1 DEF Init, TableType, FreeSlot
<1>8. JobType
  BY <1>1 DEF Init, JobType, NoJob, Kinds
<1>9. OtherTypes /\ Len(asked) = 0 /\ Len(toBackend) = 0 /\ Len(toTui) = 0
  BY <1>1, EmptySeq DEF Init, OtherTypes
<1>10. TypesInv
  BY <1>6, <1>7, <1>8, <1>9, TypesInvIs
<1>11. Turns = {}
  BY <1>9 DEF Turns
<1>12. \A k \in Slots : in_flight[k].corr = 0
  BY DEF Init, FreeSlot
<1>13. \A c \in Corrs : job[c].pc = "none" /\ c >= next_corr
  BY <1>1 DEF Init, NoJob, Corrs
<1>14. 0 \notin Corrs
  BY <1>1 DEF Corrs
<1>15. Core
  <2>1. JobInv
    BY <1>13 DEF Init, JobInv, Runs
  <2>2. QueueInv /\ MsgsInv
    BY <1>9, <1>11 DEF QueueInv, MsgsInv
  <2>3. DownInv
    BY DEF Init, DownInv
  <2>4. TableInv
    BY <1>11, <1>12, <1>14 DEF TableInv, TurnEntry
  <2> QED
    BY <2>1, <2>2, <2>3, <2>4 DEF Core
<1>16. DestInv
  BY <1>9, <1>12, <1>13, <1>14 DEF DestInv, Runs, TurnEntry
<1>17. HomeInv
  BY <1>2, <1>4, <1>5, EmptySeq DEF HomeInv, TopicHome, ChatOf
<1>18. TalkInv
  BY <1>2, <1>4, <1>5, <1>11, EmptySeq DEF TalkInv, Pending, Fits, ChatOf
<1> QED
  BY <1>10, <1>15, <1>16, <1>17, <1>18 DEF IInv

\* The sets of turns, when no request is asked or answered.
LEMMA PendingSame ==
    ASSUME TypesInv, UNCHANGED <<asked, answered>>, \A c \in Corrs : job'[c].kind = job[c].kind
    PROVE  Pending' = Pending
<1>1. 1..Len(asked) \subseteq Corrs
  BY Basics
<1> QED
  BY <1>1 DEF Pending, Turns

\* A step of the user that asks nothing.
LEMMA InvLocal ==
    ASSUME IInv, Local, TuiInv', Stable
    PROVE  TypesInv' /\ Core' /\ DestInv' /\ Grows /\ Pending' = Pending
<1>1. next_id <= next_id' /\ next_id' \in Nat
  BY StableNext DEF IInv
<1>2. Pending' = Pending
  BY PendingSame DEF IInv, Local
<1> QED
  BY <1>1, <1>2, TypesLocal, CoreLocal, DestLocal DEF IInv

LEMMA EditedKept ==
    ASSUME TypesInv, NEW i, NEW chat, Edited(i, chat), KeptChat(ChatOf(i), chat)
    PROVE  Kept
<1>1. /\ Stable /\ Count' = Count
      /\ \A j \in 1..Count : sessions'[j].chat = IF j = i THEN chat ELSE sessions[j].chat
  BY EditedIs
<1>2. \A l, j \in 1..Count : sessions[l].id = sessions[j].id => l = j
  BY DEF TypesInv
<1> QED
  BY <1>1, <1>2 DEF Stable, Kept, KeptChat, Count, ChatOf

LEMMA AppendKept ==
    ASSUME NEW chat \in Seq(ChatMsg), NEW m \in ChatMsg
    PROVE  KeptChat(chat, Append(chat, m))
BY AppendIs DEF KeptChat

\* Sessions that are the old ones, or new.
LEMMA MovedKept ==
    ASSUME TypesInv,
           \A j \in 1..Count' :
              \/ \E i \in 1..Count : /\ sessions'[j].id = sessions[i].id
                                     /\ sessions'[j].chat = sessions[i].chat
              \/ sessions'[j].id = next_id
    PROVE  Kept
<1>1. /\ \A l, j \in 1..Count : sessions[l].id = sessions[j].id => l = j
      /\ \A l \in 1..Count : sessions[l].id < next_id /\ sessions[l].id \in Nat
      /\ \A l \in 1..Count : Len(ChatOf(l)) \in Nat
  BY Basics DEF TypesInv
<1> SUFFICES ASSUME NEW i \in 1..Count, NEW j \in 1..Len(sessions'),
                    sessions[i].id = sessions'[j].id
             PROVE  KeptChat(ChatOf(i), sessions'[j].chat)
  BY DEF Kept
<1>2. sessions'[j].id # next_id
  BY SMTT(30), <1>1, Basics
<1>3. sessions'[j].chat = sessions[i].chat
  BY <1>1, <1>2 DEF Count
<1> QED
  BY <1>1, <1>3 DEF KeptChat, ChatOf

LEMMA SameKept ==
    ASSUME TypesInv, UNCHANGED sessions
    PROVE  Kept
<1>1. \A j \in 1..Count' : \E i \in 1..Count : /\ sessions'[j].id = sessions[i].id
                                               /\ sessions'[j].chat = sessions[i].chat
  BY DEF Count
<1> QED
  BY <1>1, MovedKept
LEMMA InvSubmit ==
    ASSUME IInv, Submit
    PROVE  IInv' /\ Kept
<1> DEFINE chat == ChatOf(active) \o <<M("user", next_corr), M("dots", next_corr)>>
<1>1. PICK f \in BOOLEAN : Asked("chat", f, chat)
  BY SubmitIs DEF IInv
<1>2. TypesInv' /\ Core' /\ DestInv' /\ Grows
  BY <1>1, TypesAsked, CoreAsked, DestAsked DEF IInv
<1>3. Edited(active, chat) /\ next_corr \in Corrs
  BY <1>1 DEF Asked
<1>4. HomeInv'
  BY <1>2, <1>3, HomeSubmit DEF IInv
<1>5. TalkInv'
  BY TalkSubmit DEF IInv
<1>6. ChatOf(active) \in Seq(ChatMsg)
  BY Basics DEF IInv
<1>7. KeptChat(ChatOf(active), chat)
  BY <1>3, <1>6, AskedChatIs DEF KeptChat
<1>8. Kept
  BY <1>3, <1>7, EditedKept DEF IInv
<1> QED
  BY <1>2, <1>4, <1>5, <1>8 DEF IInv

\* The system message a local command or a result leaves.
LEMMA SystemMsg ==
    ASSUME TypesInv
    PROVE  /\ M("system", 0) \in ChatMsg /\ 0 \in 0..MaxCorr /\ active \in 1..Count
           /\ KeptChat(ChatOf(active), Append(ChatOf(active), M("system", 0)))
<1>1. 0 \in 0..MaxCorr
  BY Bounds
<1> QED
  BY <1>1, Basics, MIsMsg, AppendKept

LEMMA InvFsCommand ==
    ASSUME IInv, NEW op \in FsOps, FsCommand(op)
    PROVE  IInv' /\ Kept
<1>1. Asked(op, FALSE, Append(ChatOf(active), M("system", 0)))
  BY FsCommandIs DEF IInv
<1>2. TypesInv' /\ Core' /\ DestInv' /\ Grows
  BY <1>1, TypesAsked, CoreAsked, DestAsked DEF IInv
<1>3. Edited(active, Append(ChatOf(active), M("system", 0)))
  BY <1>1 DEF Asked
<1>4. HomeInv'
  BY <1>2, <1>3, SystemMsg, HomeAppend DEF IInv
<1>5. TalkInv'
  BY TalkFs DEF IInv
<1>6. Kept
  BY <1>3, SystemMsg, EditedKept DEF IInv
<1> QED
  BY <1>2, <1>4, <1>5, <1>6 DEF IInv

LEMMA InvNote ==
    ASSUME IInv, Note
    PROVE  IInv' /\ Kept
<1>1. /\ Local /\ Edited(active, Append(ChatOf(active), M("system", 0)))
      /\ upset' = Noted(active)
  BY NoteIs DEF IInv
<1>2. TypesInv' /\ Core' /\ DestInv' /\ Grows /\ Pending' = Pending
  BY <1>1, EditedIs, InvLocal DEF IInv
<1>3. HomeInv'
  BY <1>1, <1>2, SystemMsg, HomeAppend DEF IInv
<1>4. TalkInv'
  BY <1>1, <1>2, TalkNoted DEF IInv, Local
<1>5. Kept
  BY <1>1, SystemMsg, EditedKept DEF IInv
<1> QED
  BY <1>2, <1>3, <1>4, <1>5 DEF IInv

LEMMA InvClear ==
    ASSUME IInv, Clear
    PROVE  IInv'
<1>1. Local /\ Edited(active, <<>>)
  BY ClearIs DEF IInv
<1>2. TypesInv' /\ Core' /\ DestInv' /\ Grows /\ Pending' = Pending
  BY <1>1, EditedIs, InvLocal DEF IInv
<1>3. \A k \in 1..Len(<<>>) : FALSE
  BY EmptySeq
<1>4. HomeInv'
  BY <1>1, <1>2, <1>3, HomeEdited DEF IInv
<1>5. \A id : Fits(<<>>, id, Pending', asked)
  BY <1>3 DEF Fits
<1>6. TalkInv'
  BY <1>1, <1>2, <1>5, TalkEdited DEF IInv, Local
<1> QED
  BY <1>2, <1>4, <1>6 DEF IInv

LEMMA InvRename ==
    ASSUME IInv, Rename
    PROVE  IInv' /\ Kept
<1>1. /\ Local /\ upset' = upset /\ TuiInv' /\ Stable /\ Count' = Count
      /\ \A j \in 1..Count : /\ sessions'[j].topic \in {0, sessions[j].topic}
                             /\ sessions'[j].chat = sessions[j].chat
  BY RenameIs DEF IInv
<1>2. TypesInv' /\ Core' /\ DestInv' /\ Grows /\ Pending' = Pending
  BY <1>1, InvLocal DEF IInv
<1>3. HomeInv'
  BY <1>1, <1>2, HomeNamed DEF IInv
<1>4. \A j \in 1..Count' : \E i \in 1..Count : /\ sessions'[j].id = sessions[i].id
                                               /\ sessions'[j].chat = sessions[i].chat
  BY <1>1 DEF Stable
<1>5. TalkInv'
  BY <1>1, <1>2, <1>4, TalkMoved DEF IInv, Local
<1>6. Kept
  BY <1>4, MovedKept DEF IInv
<1> QED
  BY <1>2, <1>3, <1>5, <1>6 DEF IInv

LEMMA InvNew ==
    ASSUME IInv, NEW name \in {"default", "user"}, New(name)
    PROVE  IInv' /\ Kept
<1>1. /\ TuiInv' /\ Stable /\ Count' = Count + 1
      /\ \A j \in 1..Count : sessions'[j] = sessions[j]
      /\ sessions'[Count + 1].id = next_id /\ sessions'[Count + 1].chat = <<>>
      /\ sessions'[Count + 1].topic = 0
  BY NewIs DEF IInv
<1>2. Local /\ upset' = upset
  BY NewLocal DEF IInv
<1>3. TypesInv' /\ Core' /\ DestInv' /\ Grows /\ Pending' = Pending
  BY <1>1, <1>2, InvLocal DEF IInv
<1>4. Count \in Nat /\ \A j \in 1..Count' : j \in 1..Count \/ j = Count + 1
  BY <1>1, Basics DEF IInv
<1>5. \A j \in 1..Count' : \/ \E i \in 1..Count : sessions'[j] = sessions[i]
                           \/ /\ sessions'[j].chat = <<>> /\ sessions'[j].topic = 0
                              /\ sessions'[j].id = next_id
  BY <1>1, <1>4
<1>6. HomeInv'
  BY <1>2, <1>5, HomeMoved DEF IInv, Local
<1>7. TalkInv'
  BY <1>2, <1>3, <1>5, TalkMoved DEF IInv, Local
<1>8. Kept
  BY <1>5, MovedKept DEF IInv
<1> QED
  BY <1>3, <1>6, <1>7, <1>8 DEF IInv

LEMMA InvDelete ==
    ASSUME IInv, Delete
    PROVE  IInv' /\ Kept
<1>1. /\ TuiInv' /\ next_id' >= next_id
      /\ \A j \in 1..Count' :
           \/ \E i \in 1..Count : sessions'[j] = sessions[i]
           \/ /\ sessions'[j].id = next_id /\ next_id' = next_id + 1
              /\ sessions'[j].chat = <<>> /\ sessions'[j].topic = 0
  BY DeleteIs DEF IInv
<1>2. Local /\ upset' = IF Quiet THEN upset ELSE upset \cup {"deleted"}
  BY DeleteLocal DEF IInv
<1>3. next_id <= next_id' /\ next_id' \in Nat
  <2>1. next_id \in Nat /\ next_id' \in 1..(MaxIds + 1)
    BY <1>1, Basics DEF IInv, TuiInv, TuiTypes
  <2> QED
    BY <1>1, <2>1
<1>4. TypesInv' /\ Core' /\ DestInv' /\ Pending' = Pending
  <2>1. Pending' = Pending
    BY <1>2, PendingSame DEF IInv, Local
  <2> QED
    BY <1>1, <1>2, <1>3, <2>1, TypesLocal, CoreLocal, DestDelete DEF IInv
<1>5. "deleted" \notin upset' => UNCHANGED upset
  BY <1>2
<1>6. HomeInv'
  BY <1>1, <1>2, <1>5, HomeMoved DEF IInv, Local
<1>7. TalkInv'
  BY <1>1, <1>2, <1>4, TalkMoved DEF IInv, Local
<1>8. Kept
  BY <1>1, MovedKept DEF IInv
<1> QED
  BY <1>4, <1>6, <1>7, <1>8 DEF IInv

LEMMA InvList ==
    ASSUME IInv, OpenList \/ MoveSelection \/ Select \/ UNCHANGED vars
    PROVE  IInv' /\ Kept
<1>1. /\ Local /\ UNCHANGED <<sessions, upset>> /\ TuiInv' /\ Stable /\ Count' = Count
  BY ListIs DEF IInv
<1>2. TypesInv' /\ Core' /\ DestInv' /\ Grows /\ Pending' = Pending
  BY <1>1, InvLocal DEF IInv
<1>3. \A j \in 1..Count' : \E i \in 1..Count : sessions'[j] = sessions[i]
  BY <1>1
<1>4. HomeInv'
  BY <1>1, <1>3, HomeMoved DEF IInv, Local
<1>5. TalkInv'
  BY <1>1, <1>2, <1>3, TalkMoved DEF IInv, Local
<1>6. Kept
  BY <1>1, SameKept DEF IInv
<1> QED
  BY <1>2, <1>4, <1>5, <1>6 DEF IInv
\* The entry of a turn, or the index in its reply, leads to its session.
LEMMA FinalHome ==
    ASSUME IInv, ReceiveFinal, "deleted" \notin upset
    PROVE  asked[Head(toTui).corr] = sessions[FinalTarget(Head(toTui))].id
<1> DEFINE m == Head(toTui)
<1>1. toTui # <<>> /\ m.type = "REP_FINAL"
  BY DEF ReceiveFinal, Takes
<1>2. m = toTui[1] /\ MsgOK(m) /\ m.corr # 0
  BY <1>1, HeadIs DEF IInv, Core
<1>3. 1 \in 1..Len(toTui)
  BY <1>1, TailIs DEF IInv, TypesInv, TypeOK
<1>4. m.corr \in Corrs /\ Chat(m.corr)
  BY <1>1, <1>2 DEF MsgOK, MsgFits, Answer, Chat
<1>5. Dest(m.sidx, m.corr)
  BY <1>1, <1>2, <1>3 DEF IInv, DestInv
<1>6. \A k \in Slots : in_flight[k].corr = m.corr => Dest(in_flight[k].sidx, m.corr)
  BY <1>4 DEF IInv, DestInv, TurnEntry
<1>7. Count \in Nat
  BY Basics DEF IInv
<1> HIDE DEF m
<1>8. \/ SessionOf(m.corr) = 0
      \/ Dest(SessionOf(m.corr), m.corr)
  BY <1>2, <1>6, RemovedIs
<1>9. Dest(FinalTarget(m), m.corr)
  <2>1. CASE SessionOf(m.corr) = 0
    BY <1>5, <1>7, <2>1 DEF FinalTarget, Dest
  <2>2. CASE SessionOf(m.corr) # 0
    BY <1>7, <1>8, <2>2 DEF FinalTarget, Dest
  <2> QED
    BY <2>1, <2>2
<1> QED
  BY <1>9 DEF Dest, m

\* So does the entry of a turn that failed, as long as it was given one.
LEMMA ErrorHome ==
    ASSUME IInv, ReceiveError, upset \cap {"deleted", "overflow"} = {},
           Head(toTui).corr \in Turns \ answered
    PROVE  LET c == Head(toTui).corr
               i == IF SessionOf(c) \in 1..Count THEN SessionOf(c) ELSE active
           IN  asked[c] = sessions[i].id
<1> DEFINE c == Head(toTui).corr
<1>1. toTui # <<>>
  BY DEF ReceiveError, Takes
<1>2. connected
  BY <1>1 DEF IInv, Core, DownInv
<1>3. c # 0 /\ c \in Corrs /\ Chat(c)
  BY <1>1, HeadIs, TurnIs DEF IInv, Core
<1>4. \E k \in Slots : in_flight[k].corr = c
  BY <1>2 DEF IInv, Core, TableInv
<1>5. \A k \in Slots : in_flight[k].corr = c => Dest(in_flight[k].sidx, c)
  BY <1>3 DEF IInv, DestInv, TurnEntry
<1> HIDE DEF c
<1>6. Dest(SessionOf(c), c)
  BY <1>3, <1>4, <1>5, RemovedIs
<1> QED
  BY <1>6 DEF Dest, c

\* Of the chat whose placeholder gives way to an answer the rest is kept.
LEMMA ReplacedKept ==
    ASSUME TypesInv, TalkInv, upset = {}, NEW i \in 1..Count, NEW m \in ChatMsg,
           NEW c \in Pending, asked[c] = sessions[i].id
    PROVE  KeptChat(ChatOf(i), ReplaceLast(ChatOf(i), m))
<1> PICK old : old = ChatOf(i)
  OBVIOUS
<1>1. old \in Seq(ChatMsg) /\ Len(old) \in Nat
  BY Basics
<1>2. old = <<>> \/ Dots(old)
  BY DEF TalkInv, Fits
<1> PICK new : new = ReplaceLast(old, m)
  OBVIOUS
<1>3. /\ old # <<>> => Len(new) = Len(old)
      /\ \A k \in 1..Len(new) : new[k] = IF k = Len(new) THEN m ELSE old[k]
  BY ONLY <1>1, m \in ChatMsg, new = ReplaceLast(old, m), ReplaceLastNew
<1>4. KeptChat(old, new)
  BY ONLY <1>1, <1>2, <1>3 DEF KeptChat, Dots
<1> QED
  BY <1>4

\* An answer takes its turn from the ones under way.
LEMMA PendingAnswer ==
    ASSUME TypesInv, NEW m, NEW i, NEW chat, GotAnswer(m, i, chat)
    PROVE  Pending' = Pending \ {m.corr}
BY DEF Pending, Turns, GotAnswer, Received

LEMMA InvAnswer ==
    ASSUME IInv, NEW m, NEW i \in 1..Count, NEW kind \in {"reply", "error"}, m.corr \in Corrs,
           GotAnswer(m, i, ReplaceLast(ChatOf(i), M(kind, m.corr))),
           upset \cap {"deleted", "overflow"} = {} => asked[m.corr] = sessions[i].id,
           kind = "reply" /\ "deleted" \notin upset => asked[m.corr] = sessions[i].id
    PROVE  IInv' /\ (upset' = {} => Kept)
<1> DEFINE chat == ReplaceLast(ChatOf(i), M(kind, m.corr))
<1>1. /\ Received(m) /\ Edited(i, chat) /\ UNCHANGED <<upset, ended, asked>>
      /\ answered' = answered \cup {m.corr}
  BY DEF GotAnswer, Received
<1>2. TypesInv' /\ Stable
  BY TypesAnswer DEF IInv, Core
<1>3. Core' /\ m.corr \in Turns \ answered
  BY CoreAnswer DEF IInv
<1>4. EntriesOld
  BY EntriesAnswer DEF IInv
<1>5. answered' \subseteq Corrs /\ ended' \subseteq Corrs
  BY <1>1 DEF IInv, TypesInv, TypeOK
<1>6. DestInv' /\ Grows
  BY <1>1, <1>2, <1>4, <1>5, DestReceived DEF IInv
<1>7. m.corr \in Pending /\ m.corr \in 1..Len(asked) /\ Pending' = Pending \ {m.corr}
  BY <1>3, PendingAnswer DEF Pending, Turns, IInv
<1>8. HomeInv'
  BY <1>1, <1>6, <1>7, HomeReplaced DEF IInv
<1>9. TalkInv'
  BY <1>1, <1>7, TalkReplaced DEF IInv
<1>10. ASSUME upset' = {}
       PROVE  Kept
  <2>1. M(kind, m.corr) \in ChatMsg
    BY CorrIs, MIsMsg
  <2>2. upset = {} /\ asked[m.corr] = sessions[i].id
    BY <1>1, <1>10
  <2>3. KeptChat(ChatOf(i), chat)
    BY <1>7, <2>1, <2>2, ReplacedKept DEF IInv
  <2> QED
    BY <1>1, <2>3, EditedKept DEF IInv
<1> QED
  BY <1>2, <1>3, <1>6, <1>8, <1>9, <1>10 DEF IInv

LEMMA InvFinal ==
    ASSUME IInv, ReceiveFinal
    PROVE  IInv' /\ (upset' = {} => Kept)
<1> DEFINE m == Head(toTui)
           i == FinalTarget(m)
<1>1. /\ m.corr \in Corrs /\ i \in 1..Count
      /\ GotAnswer(m, i, ReplaceLast(ChatOf(i), M("reply", m.corr)))
  BY ReceiveFinalIs DEF IInv, Core
<1>2. "deleted" \notin upset => asked[m.corr] = sessions[i].id
  BY FinalHome
<1> HIDE DEF m, i
<1> QED
  BY <1>1, <1>2, InvAnswer

LEMMA InvError ==
    ASSUME IInv, ReceiveError
    PROVE  IInv' /\ (upset' = {} => Kept)
<1> DEFINE m == Head(toTui)
           i == IF SessionOf(m.corr) \in 1..Count THEN SessionOf(m.corr) ELSE active
<1>1. /\ m.corr \in Corrs /\ i \in 1..Count
      /\ GotAnswer(m, i, ReplaceLast(ChatOf(i), M("error", m.corr)))
  BY ReceiveErrorIs DEF IInv, Core
<1>2. m.corr \in Turns \ answered
  BY <1>1, CoreAnswer DEF IInv
<1>3. upset \cap {"deleted", "overflow"} = {} => asked[m.corr] = sessions[i].id
  BY <1>2, ErrorHome
<1> HIDE DEF m, i
<1> QED
  BY <1>1, <1>3, InvAnswer
\* A step that leaves chats, requests and answers as they are.
LEMMA InvSameChats ==
    ASSUME IInv, TypesInv', Core', DestInv', Grows, Count' = Count, Pending' = Pending,
           UNCHANGED asked,
           \A j \in 1..Count :
             /\ sessions'[j].chat = sessions[j].chat
             /\ sessions'[j].topic \in {0, sessions[j].topic} \/ TopicHome(sessions'[j], asked')
    PROVE  IInv' /\ Kept
<1>1. HomeInv'
  BY HomeNamed DEF IInv
<1>2. \A j \in 1..Count' : \E i \in 1..Count : /\ sessions'[j].id = sessions[i].id
                                               /\ sessions'[j].chat = sessions[i].chat
  BY DEF Grows, Stable
<1>3. TalkInv'
  BY <1>2, TalkMoved DEF IInv, Grows
<1>4. Kept
  BY <1>2, MovedKept DEF IInv
<1> QED
  BY <1>1, <1>3, <1>4 DEF IInv

LEMMA InvStart ==
    ASSUME IInv, ReceiveStart
    PROVE  IInv' /\ Kept
<1> DEFINE m == Head(toTui)
<1>1. PICK i \in 1..MaxSessions : GotStart(m, i)
  BY ReceiveStartIs DEF IInv, Core
<1>2. /\ Received(m) /\ UNCHANGED <<sessions, answered, ended, asked, job>>
  BY <1>1 DEF GotStart, Received
<1>3. TypesInv' /\ Core' /\ Stable /\ Count' = Count /\ EntriesOld
  BY <1>1, TypesStart, CoreStart, EntriesStart DEF IInv, Core
<1>4. answered' \subseteq Corrs /\ ended' \subseteq Corrs
  BY <1>2 DEF IInv, TypesInv, TypeOK
<1>5. DestInv' /\ Grows
  BY <1>2, <1>3, <1>4, DestReceived DEF IInv
<1>6. Pending' = Pending
  BY <1>2, PendingSame DEF IInv
<1> QED
  BY <1>2, <1>3, <1>5, <1>6, InvSameChats

LEMMA InvEnd ==
    ASSUME IInv, ReceiveEnd
    PROVE  IInv' /\ Kept
<1> DEFINE m == Head(toTui)
<1>1. GotEnd(m)
  BY ReceiveEndIs DEF IInv, Core
<1>2. Received(m) /\ ended' \subseteq Corrs /\ UNCHANGED <<sessions, answered, asked, job>>
  BY <1>1 DEF GotEnd, Received
<1>3. TypesInv' /\ Core' /\ Stable /\ Count' = Count /\ EntriesOld
  BY <1>1, TypesEnd, CoreEnd, EntriesEnd DEF IInv, Core
<1>4. answered' \subseteq Corrs
  BY <1>2 DEF IInv, TypesInv, TypeOK
<1>5. DestInv' /\ Grows
  BY <1>2, <1>3, <1>4, DestReceived DEF IInv
<1>6. Pending' = Pending
  BY <1>2, PendingSame DEF IInv
<1> QED
  BY <1>2, <1>3, <1>5, <1>6, InvSameChats

\* A message that only shows something or names a session.
LEMMA OtherIs ==
    ASSUME IInv, NEW m, GotOther(m), TuiInv', Stable
    PROVE  /\ TypesInv' /\ Core' /\ DestInv' /\ Grows /\ Pending' = Pending
           /\ UNCHANGED <<asked, answered>> /\ upset \subseteq upset'
<1>1. Received(m) /\ upset \subseteq upset' /\ UNCHANGED <<asked, answered, ended, job>>
  BY DEF GotOther, Received
<1>2. TypesInv' /\ Core' /\ EntriesOld
  BY TypesOther, CoreOther, EntriesOther DEF IInv, Core
<1>3. answered' \subseteq Corrs /\ ended' \subseteq Corrs
  BY <1>1 DEF IInv, TypesInv, TypeOK
<1>4. DestInv' /\ Grows
  BY <1>1, <1>2, <1>3, DestReceived DEF IInv
<1>5. Pending' = Pending
  BY <1>1, PendingSame DEF IInv
<1> QED
  BY <1>1, <1>2, <1>4, <1>5

LEMMA InvRep ==
    ASSUME IInv, ReceiveRep
    PROVE  IInv' /\ Kept
<1> DEFINE m == Head(toTui)
<1>1. /\ GotOther(m) /\ UNCHANGED <<listVars, next_id>>
      /\ \/ /\ Edited(active, Append(ChatOf(active), M("system", 0)))
            /\ upset' = Noted(active)
         \/ UNCHANGED <<sessions, upset>>
  BY ReceiveRepIs DEF IInv, Core
<1>2. CASE /\ Edited(active, Append(ChatOf(active), M("system", 0)))
           /\ upset' = Noted(active)
  <2>1. TypesInv' /\ Core' /\ DestInv' /\ Grows /\ Pending' = Pending /\ UNCHANGED asked
        /\ upset \subseteq upset'
    BY <1>1, <1>2, EditedIs, OtherIs DEF IInv
  <2>2. HomeInv'
    BY <1>2, <2>1, SystemMsg, HomeAppend DEF IInv
  <2>3. TalkInv'
    BY <1>2, <2>1, TalkNoted DEF IInv
  <2>4. Kept
    BY <1>2, SystemMsg, EditedKept DEF IInv
  <2> QED
    BY <2>1, <2>2, <2>3, <2>4 DEF IInv
<1>3. CASE UNCHANGED <<sessions, upset>>
  <2>1. TuiInv' /\ Stable /\ Count' = Count
    BY <1>1, <1>3, SameSelection DEF IInv
  <2>2. TypesInv' /\ Core' /\ DestInv' /\ Grows /\ Pending' = Pending /\ UNCHANGED asked
    BY <1>1, <2>1, OtherIs
  <2> QED
    BY <1>3, <2>1, <2>2, InvSameChats
<1> QED
  BY <1>1, <1>2, <1>3

LEMMA InvTopic ==
    ASSUME IInv, ReceiveRename
    PROVE  IInv' /\ Kept
<1> DEFINE m == Head(toTui)
           i == m.sidx
<1>1. /\ GotOther(m) /\ UNCHANGED <<listVars, next_id, upset>>
      /\ m.type = "SESSION_RENAME" /\ m.corr \in 1..Len(asked) /\ i # 0
      /\ \/ /\ i \in 1..Count
            /\ sessions' = [sessions EXCEPT ![i].name = "topic", ![i].topic = m.corr]
         \/ UNCHANGED sessions
  BY ReceiveRenameIs DEF IInv, Core
<1>2. CASE /\ i \in 1..Count
           /\ sessions' = [sessions EXCEPT ![i].name = "topic", ![i].topic = m.corr]
  <2>1. m.corr \in 0..MaxCorr
    BY <1>1, Basics, CorrIs DEF IInv
  <2>2. PICK k, c : k = i /\ c = m.corr
    OBVIOUS
  <2>3. /\ TuiInv' /\ Stable /\ Count' = Count
        /\ \A j \in 1..Count : /\ sessions'[j].topic = IF j = k THEN c ELSE sessions[j].topic
                               /\ sessions'[j].chat = sessions[j].chat
    <3>1. /\ TypesInv /\ k \in 1..Count /\ c \in 0..MaxCorr
          /\ sessions' = [sessions EXCEPT ![k].name = "topic", ![k].topic = c]
          /\ UNCHANGED <<listVars, next_id>>
      BY <1>1, <1>2, <2>1, <2>2 DEF IInv
    <3> QED
      BY ONLY <3>1, NamedIs
  <2>4. TypesInv' /\ Core' /\ DestInv' /\ Grows /\ Pending' = Pending /\ UNCHANGED asked
    BY <1>1, <2>3, OtherIs
  <2>5. "deleted" \notin upset' => Dest(i, m.corr)
    <3>1. toTui # <<>> /\ m = Head(toTui) /\ UNCHANGED upset
      BY <1>1 DEF GotOther, Received
    <3>2. 1 \in 1..Len(toTui) /\ m = toTui[1]
      BY <3>1, TailIs DEF IInv, TypesInv, TypeOK
    <3> QED
      BY <1>1, <3>1, <3>2 DEF IInv, DestInv
  <2>6. CASE "deleted" \notin upset'
    <3>1. asked'[c] = sessions'[k].id /\ c \in 1..Len(asked')
      BY <1>1, <1>2, <2>2, <2>3, <2>4, <2>5, <2>6 DEF Dest, Stable
    <3>2. \A j \in 1..Count : j = k => TopicHome(sessions'[j], asked')
      BY <2>3, <3>1 DEF TopicHome
    <3> QED
      BY <2>3, <2>4, <3>2, InvSameChats
  <2>7. CASE "deleted" \in upset'
    <3>1. HomeInv'
      BY <2>7 DEF HomeInv
    <3>2. \A j \in 1..Count' : \E l \in 1..Count : /\ sessions'[j].id = sessions[l].id
                                                   /\ sessions'[j].chat = sessions[l].chat
      BY <2>3 DEF Stable
    <3>3. TalkInv'
      BY <2>4, <3>2, TalkMoved DEF IInv, Grows
    <3>4. Kept
      BY <3>2, MovedKept DEF IInv
    <3> QED
      BY <2>4, <3>1, <3>3, <3>4 DEF IInv
  <2> QED
    BY <2>6, <2>7
<1>3. CASE UNCHANGED sessions
  <2>1. TuiInv' /\ Stable /\ Count' = Count
    BY <1>1, <1>3, SameSelection DEF IInv
  <2>2. TypesInv' /\ Core' /\ DestInv' /\ Grows /\ Pending' = Pending /\ UNCHANGED asked
    BY <1>1, <2>1, OtherIs
  <2> QED
    BY <1>3, <2>1, <2>2, InvSameChats
<1> QED
  BY <1>1, <1>2, <1>3

LEMMA InvDown ==
    ASSUME IInv, Disconnect
    PROVE  IInv' /\ Kept
<1>1. /\ TypesInv' /\ Count' = Count
      /\ \A c \in Corrs : job'[c].kind = job[c].kind
      /\ UNCHANGED <<sessions, histVars>>
  BY DisconnectIs DEF IInv
<1>2. Core' /\ DestInv' /\ Grows
  BY CoreDown, DestDown DEF IInv
<1>3. Pending' = Pending
  BY <1>1, PendingSame DEF IInv, histVars
<1> QED
  BY <1>1, <1>2, <1>3, InvSameChats DEF histVars

LEMMA InvDispatch ==
    ASSUME IInv, Dispatch
    PROVE  IInv' /\ Kept
<1> DEFINE m == toBackend[1]
<1>1. /\ TypesInv' /\ Count' = Count /\ UNCHANGED <<toTui, backendOnly>>
      /\ 1 \in 1..Len(toBackend) /\ job'[m.corr].kind = m.kind
      /\ \A d \in Corrs : d # m.corr => job'[d] = job[d]
  BY DispatchIs DEF IInv
<1>2. Core' /\ DestInv' /\ Grows
  BY CoreDispatch, DestDispatch DEF IInv
<1>3. UNCHANGED <<sessions, asked, answered>>
  BY <1>1 DEF backendOnly, tuiVars, histVars
<1>4. \A c \in Corrs : job'[c].kind = job[c].kind
  BY <1>1 DEF IInv, Core, QueueInv
<1>5. Pending' = Pending
  BY <1>3, <1>4, PendingSame DEF IInv
<1> QED
  BY <1>1, <1>2, <1>3, <1>5, InvSameChats

LEMMA InvThread ==
    ASSUME IInv, NEW c \in Corrs, ThreadStep(c)
    PROVE  IInv' /\ Kept
<1>1. PICK to, subs : ThreadMove(c, to, subs)
  BY ThreadIs DEF IInv, Core
<1>2. /\ TypesInv' /\ Count' = Count /\ UNCHANGED <<sessions, asked, answered>>
      /\ \A d \in Corrs : job'[d].kind = job[d].kind
  BY <1>1, ThreadMoveIs DEF IInv
<1>3. Core' /\ DestInv' /\ Grows
  BY <1>1, CoreThread, DestThread DEF IInv
<1>4. Pending' = Pending
  BY <1>2, PendingSame DEF IInv
<1> QED
  BY <1>2, <1>3, <1>4, InvSameChats
-----------------------------------------------------------------------------
(* The theorems.                                                           *)

LEMMA NextInv ==
    ASSUME IInv, [Next]_vars
    PROVE  IInv' /\ (upset' = {} /\ ~Clear => Kept)
<1>1. CASE User
  <2>1. CASE Submit
    BY <2>1, InvSubmit
  <2>2. CASE Note
    BY <2>2, InvNote
  <2>3. CASE Clear
    BY <2>3, InvClear
  <2>4. CASE Rename
    BY <2>4, InvRename
  <2>5. CASE \E op \in FsOps : FsCommand(op)
    BY <2>5, InvFsCommand
  <2>6. CASE \E name \in {"default", "user"} : New(name)
    BY <2>6, InvNew
  <2>7. CASE Delete
    BY <2>7, InvDelete
  <2>8. CASE OpenList \/ MoveSelection \/ Select
    BY <2>8, InvList
  <2> QED
    BY <1>1, <2>1, <2>2, <2>3, <2>4, <2>5, <2>6, <2>7, <2>8 DEF User
<1>2. CASE TuiReceives
  <2>1. CASE ReceiveFinal
    BY <2>1, InvFinal
  <2>2. CASE ReceiveError
    BY <2>2, InvError
  <2>3. CASE ReceiveStart
    BY <2>3, InvStart
  <2>4. CASE ReceiveEnd
    BY <2>4, InvEnd
  <2>5. CASE ReceiveRep
    BY <2>5, InvRep
  <2>6. CASE ReceiveRename
    BY <2>6, InvTopic
  <2> QED
    BY <1>2, <2>1, <2>2, <2>3, <2>4, <2>5, <2>6 DEF TuiReceives
<1>3. CASE Disconnect
  BY <1>3, InvDown
<1>4. CASE Dispatch
  BY <1>4, InvDispatch
<1>5. CASE \E c \in Corrs : ThreadStep(c)
  BY <1>5, InvThread
<1>6. CASE UNCHANGED vars
  BY <1>6, InvList
<1> QED
  BY <1>1, <1>2, <1>3, <1>4, <1>5, <1>6 DEF Next

LEMMA Invariant == Spec => []IInv
<1>1. IInv /\ [Next]_vars => IInv'
  BY NextInv
<1> QED
  BY InitInv, <1>1, PTL DEF Spec

\* The state is well formed: at most MaxSessions sessions and at least one,
\* indexes and corr_ids in their ranges, a message of each kind the handlers
\* of check_ipc know.
THEOREM ConversationTypeCorrect == Spec => []TypeOK
<1>1. IInv => TypeOK
  BY DEF IInv, TypesInv
<1> QED
  BY <1>1, Invariant, PTL

\* The active session and the one selected in the sidebar exist, whatever
\* is created, deleted or selected: sm_active never reads past the sessions.
THEOREM SelectionStays == Spec => []SelectionValid
<1>1. IInv => SelectionValid
  BY DEF IInv, TypesInv
<1> QED
  BY <1>1, Invariant, PTL

\* The guard on the in-flight table keeps a session from sending a second
\* request before the first is answered, as long as the table has room and
\* no index is moved by a deletion.
THEOREM OneTurn == Spec => []OneTurnPerSession
<1>1. IInv => OneTurnPerSession
  BY TalkIs DEF IInv
<1> QED
  BY <1>1, Invariant, PTL

\* A placeholder is the last message of the session whose request is under
\* way; the answer takes its place, so none is left in a history.
THEOREM Placeholder == Spec => []PlaceholderIsPending
<1>1. IInv => PlaceholderIsPending
  BY TalkIs DEF IInv
<1> QED
  BY <1>1, Invariant, PTL

\* Replies, errors and topics come to the session their request was sent
\* from, whatever the user selects, creates, clears or renames meanwhile.
THEOREM RepliesHome == Spec => []ReplyInItsSession
<1>1. IInv => ReplyInItsSession
  BY HomeIs DEF IInv
<1> QED
  BY <1>1, Invariant, PTL

\* No step but /clear takes away, changes or moves a message of a session
\* that survives it; an answer takes the place of a placeholder only.
THEOREM HistoryStays == Spec => HistoryKept
<1>1. IInv /\ [Next]_vars =>
        [upset' = {} /\ ~Clear =>
           \A i \in 1..Count : \A j \in 1..Len(sessions') :
              sessions[i].id = sessions'[j].id =>
                  \A k \in 1..Len(ChatOf(i)) :
                      ChatOf(i)[k].kind # "dots" =>
                          /\ k <= Len(sessions'[j].chat)
                          /\ sessions'[j].chat[k] = ChatOf(i)[k]]_vars
  BY NextInv DEF Kept, KeptChat
<1> QED
  BY <1>1, Invariant, PTL DEF Spec, HistoryKept
=============================================================================
