------------------------- MODULE SessionStoreProofs -------------------------
(***************************************************************************)
(* Proofs about SessionStore, for any number of sessions, messages, ids    *)
(* and starts of the program.  The inductive invariant is built in layers: *)
(*   TypesInv   the types, and that no chat holds a message nobody said    *)
(*   IdsInv     ids are distinct and below next_id, in memory and in the   *)
(*              index                                                      *)
(*   TodoInv    what is still to be written belongs to the sessions        *)
(*   OwnInv     a message is in the chat and the file of its own session   *)
(*   GoneInv    what is gone is neither shown nor in a file, and what is   *)
(*              leaving will be written over                               *)
(*   KeptInv    what was in the files is still there, and in memory; the   *)
(*              index lists it                                             *)
(***************************************************************************)
EXTENDS SessionStore, SequenceTheorems, TLAPS

Msgs == 1..Len(said)

TypesInv ==
    /\ TypeOK
    /\ Len(index.ids) <= MaxSessions
    /\ mode = "down" => sessions = <<>> /\ todo = <<>> /\ ~opened
    /\ mode = "quitting" => sessions # <<>> /\ todo # <<>>
    /\ \A k \in 1..Count : sessions[k].chat \ {Garbage} \subseteq Msgs
    /\ \A s \in Ids : file[s].chat \ {Garbage} \subseteq Msgs
    /\ leaving \cup gone \cup kept \subseteq Msgs

\* The ids are distinct, and all below n.
IdsOK(ids, n) ==
    /\ \A i, j \in 1..Len(ids) : ids[i] = ids[j] => i = j
    /\ \A i \in 1..Len(ids) : ids[i] < n

IdsInv == IdsOK(IdsOf(sessions), next_id) /\ IdsOK(index.ids, index.next_id)

HasId(ss, s) == \E k \in 1..Len(ss) : ss[k].id = s

\* The writes are those of the sessions ss, after at most one removal.
TodoOK(td, ss, m) ==
    \A k \in 1..Len(td) :
        /\ td[k].do = "index" <=> td[k].id = 0
        /\ td[k].do = "file" => HasId(ss, td[k].id)
        /\ td[k].do = "remove" => k = 1 /\ m = "up" /\ ~HasId(ss, td[k].id)

TodoInv ==
    /\ TodoOK(todo, sessions, mode)
    /\ opened => todo # <<>> /\ ~Doing("remove")

OwnInv ==
    /\ \A k \in 1..Count : \A m \in sessions[k].chat \ {Garbage} : said[m] = sessions[k].id
    /\ \A s \in Ids : \A m \in file[s].chat \ {Garbage} : said[m] = s

\* Message m is not in its file.
Clean(m) == file[said[m]].state = "whole" => m \notin file[said[m]].chat

GoneInv ==
    /\ \A m \in gone \cup leaving : m \in Shown => said[m] \in hurt
    /\ leaving # {} => todo # <<>>
    /\ \A m \in gone : said[m] \in hurt \/ Clean(m)
    /\ \A m \in leaving : \/ said[m] \in hurt \/ Clean(m)
                          \/ \E k \in 1..Len(todo) : todo[k].id = said[m]

Listed(s) == index.state # "none" /\ \E i \in 1..Len(index.ids) : index.ids[i] = s

\* A saved session is in memory or about to be removed; when the program is
\* down, or quits after writing the index, the index lists it.
FilesKnown ==
    /\ index.state = "torn" => opened /\ Doing("index")
    /\ \A s \in Ids : file[s].state = "whole" =>
         IF mode = "down" THEN Listed(s)
         ELSE HasId(sessions, s) \/ (todo # <<>> /\ Head(todo) = Write("remove", s))
    /\ mode = "quitting" =>
         Head(todo).do = "index" \/ (index.state = "whole" /\ index.ids = IdsOf(sessions))

\* What a saved session holds is shown, or was taken away.
FilesShown ==
    mode # "down" =>
        \A s \in Ids : file[s].state = "whole" =>
            file[s].chat \ {Garbage} \subseteq Shown \cup gone \cup leaving

\* Message m is in its file and its file in the index; a file that is not
\* whole is being written.
Saved(m) ==
    /\ mode # "down" => m \in Shown
    /\ Listed(said[m]) /\ m \in file[said[m]].chat
    /\ file[said[m]].state = "whole" \/ (opened /\ Head(todo) = Write("file", said[m]))

KeptSaved == \A m \in kept \ (gone \cup leaving) : said[m] \notin hurt => Saved(m)

KeptInv == 0 \notin hurt => FilesKnown /\ FilesShown /\ KeptSaved

IInv == TypesInv /\ IdsInv /\ TodoInv /\ OwnInv /\ GoneInv /\ KeptInv
-----------------------------------------------------------------------------
(* Sequences: the operators the model is built from.                       *)

LEMMA Bounds == MaxSessions \in Nat \ {0} /\ MaxIds \in Nat \ {0} /\ MaxMsgs \in Nat \ {0}
BY BoundsAssumption

\* A sequence without its k-th element.
LEMMA RemoveAtProperties ==
    ASSUME NEW S, NEW s \in Seq(S), NEW k \in 1..Len(s)
    PROVE  /\ RemoveAt(s, k) \in Seq(S)
           /\ Len(RemoveAt(s, k)) = Len(s) - 1
           /\ \A i \in 1..(Len(s) - 1) :
                RemoveAt(s, k)[i] = s[IF i < k THEN i ELSE i + 1]
<1>0. Len(s) \in Nat
  BY LenProperties
<1> DEFINE a == SubSeq(s, 1, k - 1)
           b == SubSeq(s, k + 1, Len(s))
<1>1. /\ a \in Seq(S) /\ Len(a) = k - 1
      /\ \A i \in 1..(k - 1) : a[i] = s[i]
  <2>1. \A i \in 1..(k - 1) : s[i] \in S
    BY <1>0
  <2> QED
    BY <1>0, <2>1, SubSeqProperties
<1>2. /\ b \in Seq(S) /\ Len(b) = Len(s) - k
      /\ \A i \in 1..(Len(s) - k) : b[i] = s[k + i]
  <2>1. \A i \in (k + 1)..Len(s) : s[i] \in S
    BY <1>0
  <2>2. k + 1 \in Int /\ Len(s) \in Int
    BY <1>0
  <2>3. /\ b \in Seq(S)
        /\ Len(b) = IF k + 1 <= Len(s) THEN Len(s) - (k + 1) + 1 ELSE 0
        /\ \A i \in 1..(Len(s) - (k + 1) + 1) : b[i] = s[(k + 1) + i - 1]
    BY <2>1, <2>2, SubSeqProperties
  <2>4. Len(b) = Len(s) - k
    BY <1>0, <2>3
  <2>5. ASSUME NEW i \in 1..(Len(s) - k)
        PROVE  b[i] = s[k + i]
    <3>1. i \in 1..(Len(s) - (k + 1) + 1) /\ (k + 1) + i - 1 = k + i
      BY <1>0
    <3> QED
      BY <2>3, <3>1
  <2> QED
    BY <2>3, <2>4, <2>5
<1>3. RemoveAt(s, k) = a \o b
  BY DEF RemoveAt
<1> HIDE DEF a, b
<1>4. /\ a \o b \in Seq(S) /\ Len(a \o b) = Len(s) - 1
      /\ \A i \in 1..(Len(s) - 1) : (a \o b)[i] = IF i <= k - 1 THEN a[i] ELSE b[i - (k - 1)]
  <2>1. /\ a \o b \in Seq(S) /\ Len(a \o b) = Len(a) + Len(b)
        /\ \A i \in 1..(Len(a) + Len(b)) :
             (a \o b)[i] = IF i <= Len(a) THEN a[i] ELSE b[i - Len(a)]
    BY <1>1, <1>2, ConcatProperties
  <2>2. Len(a) + Len(b) = Len(s) - 1
    BY <1>0, <1>1, <1>2
  <2> QED
    BY <1>1, <2>1, <2>2
<1>5. ASSUME NEW i \in 1..(Len(s) - 1)
      PROVE  (a \o b)[i] = s[IF i < k THEN i ELSE i + 1]
  <2>1. CASE i < k
    <3>1. i \in 1..(k - 1)
      BY <1>0, <2>1
    <3> QED
      BY <1>0, <1>1, <1>4, <2>1, <3>1
  <2>2. CASE ~(i < k)
    <3>1. i - (k - 1) \in 1..(Len(s) - k) /\ k + (i - (k - 1)) = i + 1
      BY <1>0, <2>2
    <3>2. b[i - (k - 1)] = s[i + 1]
      BY <1>2, <3>1
    <3> QED
      BY <1>0, <1>4, <2>2, <3>2
  <2> QED
    BY <2>1, <2>2
<1> QED
  BY <1>3, <1>4, <1>5

\* A sequence behind one more element.
LEMMA PutFirst ==
    ASSUME NEW S, NEW s \in Seq(S), NEW e \in S
    PROVE  /\ <<e>> \o s \in Seq(S)
           /\ Len(<<e>> \o s) = Len(s) + 1
           /\ (<<e>> \o s)[1] = e
           /\ \A i \in 1..Len(s) : (<<e>> \o s)[i + 1] = s[i]
<1> DEFINE h == <<e>>
<1>1. h \in Seq(S) /\ Len(h) = 1 /\ h[1] = e
  OBVIOUS
<1>2. Len(s) \in Nat
  BY LenProperties
<1> HIDE DEF h
<1>3. /\ h \o s \in Seq(S) /\ Len(h \o s) = 1 + Len(s)
      /\ \A i \in 1..(1 + Len(s)) : (h \o s)[i] = IF i <= 1 THEN h[i] ELSE s[i - 1]
  BY SMTT(30), <1>1, <1>2, ConcatProperties
<1>4. ASSUME NEW i \in 1..Len(s)
      PROVE  (h \o s)[i + 1] = s[i]
  <2>1. i + 1 \in 1..(1 + Len(s)) /\ ~(i + 1 <= 1) /\ (i + 1) - 1 = i
    BY <1>2
  <2> QED
    BY <1>3, <2>1
<1>5. h \o s \in Seq(S) /\ Len(h \o s) = Len(s) + 1 /\ (h \o s)[1] = e
  BY <1>1, <1>2, <1>3
<1>6. \A i \in 1..Len(s) : (h \o s)[i + 1] = s[i]
  BY <1>4
<1> QED
  BY <1>5, <1>6 DEF h

\* What is left of the writes after the first one.
LEMMA TailOfTodo ==
    ASSUME NEW S, NEW s \in Seq(S), s # <<>>
    PROVE  /\ Len(s) \in Nat \ {0} /\ 1 \in 1..Len(s) /\ s[1] \in S /\ Head(s) = s[1]
           /\ Tail(s) \in Seq(S) /\ Len(Tail(s)) = Len(s) - 1
           /\ \A i \in 1..(Len(s) - 1) : Tail(s)[i] = s[i + 1] /\ i + 1 \in 1..Len(s)
           /\ Tail(s) = <<>> => Len(s) = 1
<1>1. Len(s) \in Nat \ {0}
  BY EmptySeq
<1>2. 1 \in 1..Len(s) /\ s[1] \in S /\ Head(s) = s[1]
  BY <1>1
<1>3. /\ Tail(s) \in Seq(S) /\ Len(Tail(s)) = Len(s) - 1
      /\ \A i \in 1..(Len(s) - 1) : Tail(s)[i] = s[i + 1]
  BY <1>1, HeadTailProperties
<1>4. \A i \in 1..(Len(s) - 1) : i + 1 \in 1..Len(s)
  BY <1>1
<1>5. Tail(s) = <<>> => Len(s) = 1
  <2>1. Tail(s) = <<>> => Len(Tail(s)) = 0
    BY EmptySeq
  <2> QED
    BY <1>1, <1>3, <2>1
<1> QED
  BY <1>1, <1>2, <1>3, <1>4, <1>5

\* The ids of sessions.
LEMMA IdsOfProperties ==
    ASSUME NEW ss \in Seq(Session)
    PROVE  /\ Len(ss) \in Nat
           /\ IdsOf(ss) \in Seq(Ids) /\ Len(IdsOf(ss)) = Len(ss)
           /\ \A k \in 1..Len(ss) : /\ IdsOf(ss)[k] = ss[k].id
                                    /\ ss[k] \in Session /\ ss[k].id \in Ids /\ ss[k].chat \in Chats
<1>1. Len(ss) \in Nat
  BY LenProperties
<1>2. \A k \in 1..Len(ss) : ss[k] \in Session
  BY <1>1
<1>3. \A k \in 1..Len(ss) : ss[k].id \in Ids /\ ss[k].chat \in Chats
  BY <1>2 DEF Session
<1> QED
  BY <1>1, <1>2, <1>3 DEF IdsOf

\* A save of everything: the index, then the file of each session.
LEMMA SaveAllProperties ==
    ASSUME NEW ss \in Seq(Session)
    PROVE  /\ SaveAll(ss) \in Seq(Item)
           /\ Len(SaveAll(ss)) = Len(ss) + 1
           /\ SaveAll(ss)[1] = Write("index", 0)
           /\ \A i \in 1..Len(ss) : SaveAll(ss)[i + 1] = Write("file", ss[i].id)
<1> DEFINE rest == [k \in 1..Len(ss) |-> Write("file", ss[k].id)]
<1>1. Len(ss) \in Nat /\ \A k \in 1..Len(ss) : ss[k].id \in Ids
  BY IdsOfProperties
<1>2. Write("index", 0) \in Item /\ \A k \in 1..Len(ss) : Write("file", ss[k].id) \in Item
  BY <1>1, Bounds DEF Write, Item, Ids
<1>3. rest \in Seq(Item) /\ Len(rest) = Len(ss)
  BY <1>1, <1>2
<1>4. \A i \in 1..Len(ss) : rest[i] = Write("file", ss[i].id)
  OBVIOUS
<1>5. SaveAll(ss) = <<Write("index", 0)>> \o rest
  BY DEF SaveAll
<1> HIDE DEF rest
<1> QED
  BY <1>2, <1>3, <1>4, <1>5, PutFirst

LEMMA SaveAllIsOK ==
    ASSUME NEW ss \in Seq(Session), NEW m
    PROVE  TodoOK(SaveAll(ss), ss, m)
<1>0. Len(ss) \in Nat /\ \A j \in 1..Len(ss) : ss[j].id \in Ids
  BY IdsOfProperties
<1>1. SUFFICES ASSUME NEW k \in 1..(Len(ss) + 1)
      PROVE  /\ SaveAll(ss)[k].do = "index" <=> SaveAll(ss)[k].id = 0
             /\ SaveAll(ss)[k].do = "file" => HasId(ss, SaveAll(ss)[k].id)
             /\ SaveAll(ss)[k].do # "remove"
  BY SaveAllProperties DEF TodoOK
<1>2. CASE k = 1
  BY <1>2, SaveAllProperties DEF Write
<1>3. CASE k # 1
  <2>1. PICK j \in 1..Len(ss) : k = j + 1
    <3>1. k - 1 \in 1..Len(ss) /\ k = (k - 1) + 1
      BY <1>0, <1>3
    <3> QED
      BY <3>1
  <2>2. SaveAll(ss)[k] = Write("file", ss[j].id) /\ ss[j].id # 0
    BY <1>0, <2>1, SaveAllProperties DEF Ids
  <2> QED
    BY <2>2 DEF Write, HasId
<1> QED
  BY <1>2, <1>3

\* A chat is replaced, and nothing else.
LEMMA WithChatProperties ==
    ASSUME sessions \in Seq(Session), NEW k \in 1..Count, NEW chat \in Chats
    PROVE  /\ WithChat(k, chat) \in Seq(Session)
           /\ Len(WithChat(k, chat)) = Count
           /\ \A j \in 1..Count : WithChat(k, chat)[j].id = sessions[j].id
           /\ \A j \in 1..Count :
                WithChat(k, chat)[j].chat = IF j = k THEN chat ELSE sessions[j].chat
<1> DEFINE e == [sessions[k] EXCEPT !.chat = chat]
<1>1. Count \in Nat /\ \A j \in 1..Count : sessions[j] \in Session
  BY IdsOfProperties DEF Count
<1>2. e \in Session /\ e.id = sessions[k].id /\ e.chat = chat
  BY <1>1 DEF Session
<1>3. WithChat(k, chat) = [sessions EXCEPT ![k] = e]
  BY DEF WithChat
<1> HIDE DEF e
<1>4. /\ WithChat(k, chat) \in Seq(Session) /\ Len(WithChat(k, chat)) = Count
      /\ \A j \in 1..Count : WithChat(k, chat)[j] = IF j = k THEN e ELSE sessions[j]
  BY <1>2, <1>3, ExceptSeq DEF Count
<1> QED
  BY <1>1, <1>2, <1>4

\* What a start would load.
LEMMA LoadableIs ==
    ASSUME NEW ix, ix.ids \in Seq(Ids), NEW fs, NEW m
    PROVE  m \in Loadable(ix, fs) <=>
             /\ ix.state = "whole"
             /\ \E i \in 1..Len(ix.ids) : /\ fs[ix.ids[i]].state = "whole"
                                          /\ m \in fs[ix.ids[i]].chat
<1>1. ToSet(ix.ids) = {ix.ids[i] : i \in 1..Len(ix.ids)}
  BY LenProperties DEF ToSet
<1> QED
  BY <1>1 DEF Loadable
LEMMA IdsOKIs ==
    ASSUME NEW ss \in Seq(Session), NEW n
    PROVE  IdsOK(IdsOf(ss), n) <=>
             /\ \A i, j \in 1..Len(ss) : ss[i].id = ss[j].id => i = j
             /\ \A i \in 1..Len(ss) : ss[i].id < n
BY IdsOfProperties DEF IdsOK

\* What the types say, in the form the steps need.
LEMMA Basics ==
    ASSUME TypesInv
    PROVE  /\ Count \in Nat /\ Len(said) \in Nat /\ Len(said) <= MaxMsgs /\ Msgs \subseteq 1..MaxMsgs
           /\ \A k \in 1..Count : /\ sessions[k] \in Session /\ sessions[k].id \in Ids
                                  /\ sessions[k].chat \in Chats
           /\ \A m \in Msgs : said[m] \in Ids /\ m # Garbage
           /\ Shown \ {Garbage} \subseteq Msgs
           /\ next_id \in Nat /\ said \in Seq(Ids)
<1>1. sessions \in Seq(Session) /\ said \in Seq(Ids) /\ Len(said) <= MaxMsgs
      /\ next_id \in 1..(MaxIds + 1)
  BY DEF TypesInv, TypeOK
<1>2. Count \in Nat /\ \A k \in 1..Count : /\ sessions[k] \in Session /\ sessions[k].id \in Ids
                                           /\ sessions[k].chat \in Chats
  BY <1>1, IdsOfProperties DEF Count
<1>3. Len(said) \in Nat /\ \A m \in Msgs : said[m] \in Ids /\ m # Garbage
  BY <1>1 DEF Msgs, Garbage
<1>4. Msgs \subseteq 1..MaxMsgs
  BY <1>1, <1>3, Bounds DEF Msgs
<1>5. Shown \ {Garbage} \subseteq Msgs
  BY DEF Shown, TypesInv
<1> QED
  BY <1>1, <1>2, <1>3, <1>4, <1>5, Bounds

\* A message is in the chats of one session at most.
LEMMA OneOwner ==
    ASSUME TypesInv, IdsInv, OwnInv,
           NEW i \in 1..Count, NEW j \in 1..Count, NEW m \in Msgs,
           m \in sessions[i].chat, m \in sessions[j].chat
    PROVE  i = j
<1>1. m # Garbage /\ sessions \in Seq(Session)
  BY Basics DEF TypesInv, TypeOK
<1>2. sessions[i].id = said[m] /\ sessions[j].id = said[m]
  BY <1>1 DEF OwnInv
<1> QED
  BY <1>1, <1>2, IdsOKIs DEF IdsInv, Count

LEMMA InitInv == Init => IInv
<1> SUFFICES ASSUME Init PROVE IInv
  OBVIOUS
<1> USE DEF Init, Count
<1>1. TypesInv
  <2>1. Len(sessions) = 0 /\ Len(said) = 0 /\ Len(index.ids) = 0 /\ Msgs = {}
    BY DEF Msgs
  <2>2. {0, 1} \subseteq Int /\ 1 \in 1..(MaxIds + 1) /\ 0 \in 0..MaxRuns /\ 0 <= MaxSessions
        /\ 0 <= MaxMsgs
    BY BoundsAssumption
  <2>3. file \in [Ids -> [state : State, chat : Chats]]
    BY DEF State, Chats
  <2>4. /\ sessions \in Seq(Session) /\ todo \in Seq(Item) /\ said \in Seq(Ids)
        /\ atQuit \in Seq(Session) /\ index.ids \in Seq(Ids)
    BY EmptySeq
  <2>5. index \in [state : State, next_id : 1..(MaxIds + 1), ids : Seq(Ids)]
    BY <2>2, <2>4 DEF State
  <2>6. TypeOK
    BY <2>1, <2>2, <2>3, <2>4, <2>5 DEF TypeOK, Chats
  <2> QED
    BY <2>1, <2>2, <2>6 DEF TypesInv
<1>2. IdsInv
  BY DEF IdsInv, IdsOK, IdsOf
<1>3. TodoInv /\ OwnInv
  BY DEF TodoInv, TodoOK, OwnInv
<1>4. GoneInv /\ KeptInv
  BY DEF GoneInv, KeptInv, FilesKnown, FilesShown, KeptSaved
<1> QED
  BY <1>1, <1>2, <1>3, <1>4 DEF IInv
-----------------------------------------------------------------------------
(* What the commands that change the sessions have in common.              *)

Commanded ==
    /\ mode = "up" /\ todo = <<>>
    /\ UNCHANGED <<mode, opened, index, file, runs, gone, kept, hurt, atQuit>>
    /\ sessions' \in Seq(Session) /\ Count' \in 1..MaxSessions
    /\ next_id' \in 1..(MaxIds + 1) /\ IdsOK(IdsOf(sessions'), next_id')
    /\ \/ said' = said
       \/ Len(said) < MaxMsgs /\ \E s \in Ids : said' = Append(said, s)
    /\ \A j \in 1..Count' : \A m \in sessions'[j].chat \ {Garbage} :
         \/ \E i \in 1..Count : sessions[i].id = sessions'[j].id /\ m \in sessions[i].chat
         \/ /\ Len(said') = Len(said) + 1 /\ m = Len(said')
            /\ said'[m] = sessions'[j].id
    /\ leaving' \subseteq Shown \ {Garbage} /\ leaving' \cap Shown' = {}
    /\ Shown \ {Garbage} \subseteq Shown' \cup leaving'
    /\ todo' \in Seq(Item) /\ TodoOK(todo', sessions', mode')
    /\ \A m \in leaving' : \E k \in 1..Len(todo') : todo'[k].id = said[m]
    /\ \A s \in Ids : HasId(sessions, s) =>
         HasId(sessions', s) \/ (todo' # <<>> /\ Head(todo') = Write("remove", s))

\* A command that changes the chat of session k.
LEMMA ChatChanged ==
    ASSUME IInv, Idle, NEW k \in 1..Count, NEW chat \in Chats,
           sessions' = WithChat(k, chat), next_id' = next_id
    PROVE  /\ sessions' \in Seq(Session) /\ Count' = Count /\ Count' \in 1..MaxSessions
           /\ next_id' \in 1..(MaxIds + 1) /\ IdsOK(IdsOf(sessions'), next_id')
           /\ \A s \in Ids : HasId(sessions', s) <=> HasId(sessions, s)
           /\ \A j \in 1..Count : sessions'[j].id = sessions[j].id
           /\ \A j \in 1..Count : sessions'[j].chat = IF j = k THEN chat ELSE sessions[j].chat
<1>1. /\ sessions \in Seq(Session) /\ Count \in Nat /\ Count <= MaxSessions
      /\ next_id \in 1..(MaxIds + 1)
  BY Basics DEF IInv, TypesInv, TypeOK, Count
<1>2. /\ sessions' \in Seq(Session) /\ Len(sessions') = Count
      /\ \A j \in 1..Count : sessions'[j].id = sessions[j].id
      /\ \A j \in 1..Count : sessions'[j].chat = IF j = k THEN chat ELSE sessions[j].chat
  BY <1>1, WithChatProperties
<1>3. IdsOK(IdsOf(sessions'), next_id')
  <2>1. IdsOK(IdsOf(sessions), next_id)
    BY DEF IInv, IdsInv
  <2> QED
    BY <1>1, <1>2, <2>1, IdsOKIs DEF Count
<1>4. Count' = Count /\ Count' \in 1..MaxSessions
  BY <1>1, <1>2, Bounds DEF Count
<1> QED
  BY <1>1, <1>2, <1>3, <1>4 DEF HasId, Count

\* A single write, of the file of session k.
LEMMA OneWrite ==
    ASSUME TypesInv, NEW k \in 1..Count, NEW ss, NEW m, HasId(ss, sessions[k].id)
    PROVE  /\ SaveSession(sessions, k) \in Seq(Item)
           /\ SaveSession(sessions, k) # <<>>
           /\ Len(SaveSession(sessions, k)) = 1
           /\ SaveSession(sessions, k)[1].id = sessions[k].id
           /\ TodoOK(SaveSession(sessions, k), ss, m)
<1>1. sessions[k].id \in Ids
  BY Basics
<1>2. Write("file", sessions[k].id) \in Item /\ sessions[k].id # 0
  BY <1>1, Bounds DEF Write, Item, Ids
<1> DEFINE w == SaveSession(sessions, k)
<1>3. w = <<Write("file", sessions[k].id)>>
  BY DEF SaveSession
<1>4. w \in Seq(Item) /\ w # <<>> /\ Len(w) = 1 /\ w[1] = Write("file", sessions[k].id)
  BY <1>2, <1>3
<1> HIDE DEF w
<1>5. w[1].id = sessions[k].id /\ w[1].do = "file"
  BY <1>4 DEF Write
<1>6. TodoOK(w, ss, m)
  BY <1>2, <1>4, <1>5 DEF TodoOK
<1> QED
  BY <1>4, <1>5, <1>6 DEF w

\* A message is said, and saved or not.
LEMMA Said ==
    ASSUME IInv, Idle, NEW k \in 1..Count, Len(said) < MaxMsgs,
           NEW writes \in {<<>>, SaveSession(sessions, k)},
           Change(WithChat(k, sessions[k].chat \cup {Len(said) + 1}), next_id, writes, {}),
           said' = Append(said, sessions[k].id)
    PROVE  Commanded
<1> DEFINE chat == sessions[k].chat \cup {Len(said) + 1}
<1>1. TypesInv /\ Len(said) \in Nat /\ sessions[k].id \in Ids /\ sessions[k].chat \in Chats
      /\ said \in Seq(Ids)
  BY Basics DEF IInv
<1>2. chat \in Chats
  BY <1>1, Bounds DEF Chats
<1>3. sessions' = WithChat(k, chat) /\ next_id' = next_id
  BY DEF Change
<1>4. /\ sessions' \in Seq(Session) /\ Count' = Count /\ Count' \in 1..MaxSessions
      /\ next_id' \in 1..(MaxIds + 1) /\ IdsOK(IdsOf(sessions'), next_id')
      /\ \A s \in Ids : HasId(sessions', s) <=> HasId(sessions, s)
      /\ \A j \in 1..Count : sessions'[j].id = sessions[j].id
      /\ \A j \in 1..Count : sessions'[j].chat = IF j = k THEN chat ELSE sessions[j].chat
  BY <1>2, <1>3, ChatChanged
<1>5. Len(said') = Len(said) + 1 /\ said'[Len(said) + 1] = sessions[k].id
  BY <1>1, AppendProperties
<1>6. leaving' = {}
  BY DEF Change
<1>7. Shown \subseteq Shown'
  BY <1>4 DEF Shown
<1>8. ASSUME NEW j \in 1..Count', NEW m \in sessions'[j].chat \ {Garbage}
      PROVE  \/ \E i \in 1..Count : sessions[i].id = sessions'[j].id /\ m \in sessions[i].chat
             \/ /\ Len(said') = Len(said) + 1 /\ m = Len(said')
                /\ said'[m] = sessions'[j].id
  BY <1>4, <1>5
<1>9. todo' \in Seq(Item) /\ TodoOK(todo', sessions', mode')
  <2>1. todo' = writes
    BY DEF Change
  <2>2. HasId(sessions', sessions[k].id)
    BY <1>1, <1>4 DEF HasId, Count
  <2>3. CASE writes = <<>>
    BY <2>1, <2>3, EmptySeq DEF TodoOK
  <2>4. CASE writes = SaveSession(sessions, k)
    BY <1>1, <2>1, <2>2, <2>4, OneWrite
  <2> QED
    BY <2>3, <2>4
<1>10. /\ mode = "up" /\ todo = <<>>
       /\ UNCHANGED <<mode, opened, index, file, runs, gone, kept, hurt, atQuit>>
  BY DEF Change, Idle, diskVars
<1> HIDE DEF chat
<1> QED
  BY <1>1, <1>4, <1>6, <1>7, <1>8, <1>9, <1>10 DEF Commanded

LEMMA Cleared ==
    ASSUME IInv, NEW k \in 1..Count, Clear(k)
    PROVE  Commanded
<1>1. TypesInv /\ IdsInv /\ OwnInv /\ sessions[k].id \in Ids /\ Idle
  BY Basics DEF IInv, Clear, Change
<1>2. /\ sessions' = WithChat(k, {}) /\ next_id' = next_id /\ said' = said
      /\ todo' = SaveSession(sessions, k)
  BY DEF Clear, Change
<1>3. /\ sessions' \in Seq(Session) /\ Count' = Count /\ Count' \in 1..MaxSessions
      /\ next_id' \in 1..(MaxIds + 1) /\ IdsOK(IdsOf(sessions'), next_id')
      /\ \A s \in Ids : HasId(sessions', s) <=> HasId(sessions, s)
      /\ \A j \in 1..Count : sessions'[j].id = sessions[j].id
      /\ \A j \in 1..Count : sessions'[j].chat = IF j = k THEN {} ELSE sessions[j].chat
  BY <1>1, <1>2, ChatChanged DEF Chats
<1>4. HasId(sessions', sessions[k].id)
  BY <1>1, <1>3 DEF HasId, Count
<1>5. /\ todo' \in Seq(Item) /\ todo' # <<>> /\ Len(todo') = 1 /\ todo'[1].id = sessions[k].id
      /\ TodoOK(todo', sessions', mode')
  BY <1>1, <1>2, <1>4, OneWrite
<1>6. /\ mode = "up" /\ todo = <<>>
      /\ UNCHANGED <<mode, opened, index, file, runs, kept, hurt, atQuit>>
      /\ gone' = gone /\ leaving' = sessions[k].chat \ {Garbage}
  BY <1>2, <1>5 DEF Clear, Change, Idle, diskVars
<1>7. leaving' \subseteq Shown \ {Garbage} /\ Shown \ {Garbage} \subseteq Shown' \cup leaving'
  BY <1>3, <1>6 DEF Shown
<1>8. leaving' \cap Shown' = {}
  <2>1. SUFFICES ASSUME NEW m \in leaving', NEW j \in 1..Count, m \in sessions'[j].chat
        PROVE  FALSE
    BY <1>3 DEF Shown
  <2>2. m \in Msgs /\ m \in sessions[k].chat
    BY <1>1, <1>6 DEF TypesInv
  <2>3. j # k /\ m \in sessions[j].chat
    BY <1>3, <2>1
  <2> QED
    BY <1>1, <2>2, <2>3, OneOwner
<1>9. \A m \in leaving' : \E i \in 1..Len(todo') : todo'[i].id = said[m]
  <2>1. \A m \in leaving' : said[m] = sessions[k].id
    BY <1>1, <1>6 DEF OwnInv
  <2> QED
    BY <1>5, <2>1
<1>10. \A j \in 1..Count' : \A m \in sessions'[j].chat \ {Garbage} :
         \E i \in 1..Count : sessions[i].id = sessions'[j].id /\ m \in sessions[i].chat
  BY <1>3
<1> QED
  BY <1>2, <1>3, <1>5, <1>6, <1>7, <1>8, <1>9, <1>10 DEF Commanded

\* A command that keeps the sessions as they are, or adds one, and saves all.
LEMMA AllSaved ==
    ASSUME IInv, Idle, NEW ss \in Seq(Session), NEW next \in 1..(MaxIds + 1),
           Change(ss, next, SaveAll(ss), {}), said' = said,
           Len(ss) <= MaxSessions, IdsOK(IdsOf(ss), next),
           Len(ss) >= Count,
           \A j \in 1..Count : ss[j] = sessions[j],
           \A j \in 1..Len(ss) : j > Count => ss[j].chat = {}
    PROVE  Commanded
<1>1. TypesInv /\ Count \in Nat /\ Len(ss) \in Nat /\ Count # 0
  <2>1. TypesInv /\ mode = "up" /\ sessions \in Seq(Session)
    BY DEF IInv, Idle, TypesInv, TypeOK
  <2>2. sessions # <<>>
    BY <2>1 DEF TypesInv, TypeOK
  <2> QED
    BY <2>1, <2>2, EmptySeq, LenProperties DEF Count
<1>2. sessions' = ss /\ next_id' = next /\ todo' = SaveAll(ss) /\ Count' = Len(ss)
  BY DEF Change, Count
<1>3. todo' \in Seq(Item) /\ TodoOK(todo', sessions', mode')
  BY <1>2, SaveAllProperties, SaveAllIsOK
<1>4. /\ mode = "up" /\ todo = <<>> /\ leaving' = {}
      /\ UNCHANGED <<mode, opened, index, file, runs, kept, hurt, atQuit>>
      /\ gone' = gone
  <2>1. SaveAll(ss) # <<>>
    <3>1. Len(SaveAll(ss)) = Len(ss) + 1
      BY SaveAllProperties
    <3>2. SaveAll(ss) = <<>> => Len(SaveAll(ss)) = 0
      BY EmptySeq
    <3> QED
      BY <1>1, <3>1, <3>2
  <2> QED
    BY <2>1 DEF Change, Idle, diskVars
<1>5. Shown \subseteq Shown'
  BY <1>1, <1>2 DEF Shown
<1>6. \A j \in 1..Count' : \A m \in sessions'[j].chat \ {Garbage} :
         \E i \in 1..Count : sessions[i].id = sessions'[j].id /\ m \in sessions[i].chat
  BY <1>1, <1>2
<1>7. \A s \in Ids : HasId(sessions, s) => HasId(sessions', s)
  BY <1>1, <1>2 DEF HasId, Count
<1>8. Count' \in 1..MaxSessions
  BY <1>1, <1>2, Bounds
<1> QED
  BY <1>2, <1>3, <1>4, <1>5, <1>6, <1>7, <1>8 DEF Commanded

LEMMA Renamed ==
    ASSUME IInv, Rename
    PROVE  Commanded
<1>1. Idle /\ Change(sessions, next_id, SaveAll(sessions), {}) /\ said' = said
  BY DEF Rename, Change
<1>2. sessions \in Seq(Session) /\ next_id \in 1..(MaxIds + 1) /\ Len(sessions) <= MaxSessions
      /\ IdsOK(IdsOf(sessions), next_id) /\ Count \in Nat /\ Len(sessions) = Count
  BY Basics DEF IInv, TypesInv, TypeOK, IdsInv, Count
<1> QED
  BY <1>1, <1>2, AllSaved

LEMMA Created ==
    ASSUME IInv, New
    PROVE  Commanded
<1> DEFINE one == [id |-> next_id, chat |-> {}]
           ss == Append(sessions, one)
<1>1. /\ Idle /\ Change(ss, next_id + 1, SaveAll(ss), {}) /\ said' = said
      /\ Count < MaxSessions /\ next_id \in Ids
  BY DEF New, Change
<1>2. sessions \in Seq(Session) /\ IdsOK(IdsOf(sessions), next_id) /\ Count \in Nat
  BY Basics DEF IInv, TypesInv, TypeOK, IdsInv
<1>3. one \in Session /\ one.id = next_id /\ one.chat = {}
  BY <1>1 DEF Session, Chats
<1> HIDE DEF one
<1>4. /\ ss \in Seq(Session) /\ Len(ss) = Count + 1 /\ ss[Count + 1] = one
      /\ \A j \in 1..Count : ss[j] = sessions[j]
  BY <1>2, <1>3, AppendProperties DEF Count
<1> HIDE DEF ss
<1>5. next_id + 1 \in 1..(MaxIds + 1) /\ next_id \in Nat /\ Len(ss) <= MaxSessions /\ Len(ss) >= Count
  BY <1>1, <1>2, <1>4, Bounds DEF Ids
<1>6. IdsOK(IdsOf(ss), next_id + 1)
  <2>1. /\ \A i, j \in 1..Count : sessions[i].id = sessions[j].id => i = j
        /\ \A i \in 1..Count : sessions[i].id < next_id /\ sessions[i].id \in Nat
    BY <1>2, IdsOKIs, IdsOfProperties DEF Count, Ids
  <2>2. \A i \in 1..(Count + 1) : i \in 1..Count \/ i = Count + 1
    BY <1>2
  <2>3. ASSUME NEW i \in 1..(Count + 1) PROVE ss[i].id < next_id + 1
    BY <1>3, <1>4, <1>5, <2>1, <2>2
  <2>4. ASSUME NEW i \in 1..(Count + 1), NEW j \in 1..(Count + 1), ss[i].id = ss[j].id
        PROVE  i = j
    BY <1>3, <1>4, <1>5, <2>1, <2>2, <2>4
  <2> QED
    BY <1>4, <2>3, <2>4, IdsOKIs
<1>7. \A j \in 1..Len(ss) : j > Count => ss[j].chat = {}
  BY <1>2, <1>3, <1>4
<1> QED
  BY <1>1, <1>4, <1>5, <1>6, <1>7, AllSaved
\* What a deletion leaves of the sessions.
LEMMA RestOf ==
    ASSUME IInv, Idle, NEW k \in 1..Count, Count = 1 => next_id \in Ids,
           NEW ss, ss = Replaced(RemoveAt(sessions, k)),
           NEW next, next = IF Count = 1 THEN next_id + 1 ELSE next_id
    PROVE  /\ ss \in Seq(Session) /\ Len(ss) \in 1..MaxSessions
           /\ next \in 1..(MaxIds + 1) /\ IdsOK(IdsOf(ss), next)
           /\ \A j \in 1..Len(ss) :
                \/ ss[j].chat = {}
                \/ \E i \in 1..Count : i # k /\ ss[j] = sessions[i]
           /\ \A i \in 1..Count : i # k => \E j \in 1..Len(ss) : ss[j] = sessions[i]
           /\ ~HasId(ss, sessions[k].id)
<1> DEFINE rest == RemoveAt(sessions, k)
<1>1. /\ sessions \in Seq(Session) /\ Count \in Nat /\ Count = Len(sessions) /\ Count <= MaxSessions
      /\ next_id \in 1..(MaxIds + 1) /\ next_id \in Nat
  BY Basics DEF IInv, TypesInv, TypeOK, Count
<1>2. /\ \A i, j \in 1..Count : sessions[i].id = sessions[j].id => i = j
      /\ \A i \in 1..Count : sessions[i].id < next_id /\ sessions[i].id \in Nat
  <2>1. IdsOK(IdsOf(sessions), next_id)
    BY DEF IInv, IdsInv
  <2>2. /\ \A i, j \in 1..Count : sessions[i].id = sessions[j].id => i = j
        /\ \A i \in 1..Count : sessions[i].id < next_id
    BY <1>1, <2>1, IdsOKIs
  <2>3. \A i \in 1..Count : sessions[i].id \in Nat
    BY <1>1, IdsOfProperties DEF Ids
  <2> QED
    BY <2>2, <2>3
<1>3. /\ rest \in Seq(Session) /\ Len(rest) = Count - 1
      /\ \A i \in 1..(Count - 1) : rest[i] = sessions[IF i < k THEN i ELSE i + 1]
  BY <1>1, RemoveAtProperties
<1>4. ss = IF rest = <<>> THEN <<[id |-> next_id, chat |-> {}]>> ELSE rest
  BY DEF Replaced
<1>5. rest = <<>> <=> Count = 1
  BY <1>1, <1>3, EmptySeq
<1> HIDE DEF rest
<1>6. CASE Count = 1
  <2> DEFINE one == [id |-> next_id, chat |-> {}]
  <2>1. one \in Session /\ one.id = next_id /\ one.chat = {} /\ next = next_id + 1
        /\ next_id + 1 \in 1..(MaxIds + 1)
    BY <1>6, Bounds DEF Session, Chats, Ids
  <2>2. ss = <<one>>
    BY <1>4, <1>5, <1>6
  <2> HIDE DEF one
  <2>3. ss \in Seq(Session) /\ Len(ss) = 1 /\ ss[1] = one
    BY <2>1, <2>2
  <2>4. IdsOK(IdsOf(ss), next)
    BY <1>1, <2>1, <2>3, IdsOKIs
  <2>5. Len(ss) \in 1..MaxSessions
    BY <2>3, Bounds
  <2>6. ~HasId(ss, sessions[k].id)
    BY <1>1, <1>2, <2>1, <2>3 DEF HasId
  <2> QED
    BY <1>6, <2>1, <2>3, <2>4, <2>5, <2>6
<1>7. CASE Count # 1
  <2>1. ss = rest /\ next = next_id /\ Len(ss) = Count - 1 /\ ss \in Seq(Session)
    BY <1>3, <1>4, <1>5, <1>7
  <2>2. ASSUME NEW j \in 1..Len(ss)
        PROVE  \E i \in 1..Count : i # k /\ ss[j] = sessions[i] /\ i = IF j < k THEN j ELSE j + 1
    BY <1>1, <1>3, <2>1
  <2>3. ASSUME NEW i \in 1..Count, i # k
        PROVE  \E j \in 1..Len(ss) : ss[j] = sessions[i]
    <3>1. CASE i < k
      <4>1. i \in 1..(Count - 1) /\ ss[i] = sessions[i]
        BY <1>1, <1>3, <2>1, <3>1
      <4> QED
        BY <2>1, <4>1
    <3>2. CASE ~(i < k)
      <4>1. i - 1 \in 1..(Count - 1) /\ ~(i - 1 < k) /\ (i - 1) + 1 = i
        BY <1>1, <2>3, <3>2
      <4>2. ss[i - 1] = sessions[i]
        BY <1>3, <2>1, <4>1
      <4> QED
        BY <2>1, <4>1, <4>2
    <3> QED
      BY <3>1, <3>2
  <2>4. IdsOK(IdsOf(ss), next)
    <3>1. ASSUME NEW i \in 1..Len(ss), NEW j \in 1..Len(ss), ss[i].id = ss[j].id
          PROVE  i = j
      <4>1. PICK a \in 1..Count : ss[i] = sessions[a] /\ a = IF i < k THEN i ELSE i + 1
        BY <2>2
      <4>2. PICK b \in 1..Count : ss[j] = sessions[b] /\ b = IF j < k THEN j ELSE j + 1
        BY <2>2
      <4>3. a = b
        BY <1>2, <3>1, <4>1, <4>2
      <4> QED
        BY <1>1, <2>1, <4>1, <4>2, <4>3
    <3>2. \A i \in 1..Len(ss) : ss[i].id < next
      BY <1>2, <2>1, <2>2
    <3> QED
      BY <2>1, <3>1, <3>2, IdsOKIs
  <2>5. Len(ss) \in 1..MaxSessions /\ next \in 1..(MaxIds + 1)
    BY <1>1, <1>7, <2>1, Bounds
  <2>6. ~HasId(ss, sessions[k].id)
    BY <1>2, <2>2 DEF HasId
  <2> QED
    BY <2>1, <2>2, <2>3, <2>4, <2>5, <2>6
<1> QED
  BY <1>6, <1>7

LEMMA Deleted ==
    ASSUME IInv, NEW k \in 1..Count, Delete(k)
    PROVE  Commanded
<1> DEFINE ss == Replaced(RemoveAt(sessions, k))
           next == IF Count = 1 THEN next_id + 1 ELSE next_id
           first == Write("remove", sessions[k].id)
<1>1. /\ TypesInv /\ IdsInv /\ OwnInv /\ sessions[k].id \in Ids /\ Idle
      /\ (Count = 1 => next_id \in Ids) /\ Count \in Nat
      /\ Change(ss, next, <<first>> \o SaveAll(ss), sessions[k].chat) /\ said' = said
  BY Basics DEF IInv, Delete, Change, DeletedId
<1>2. /\ ss \in Seq(Session) /\ Len(ss) \in 1..MaxSessions
      /\ next \in 1..(MaxIds + 1) /\ IdsOK(IdsOf(ss), next)
      /\ \A j \in 1..Len(ss) :
           \/ ss[j].chat = {}
           \/ \E i \in 1..Count : i # k /\ ss[j] = sessions[i]
      /\ \A i \in 1..Count : i # k => \E j \in 1..Len(ss) : ss[j] = sessions[i]
      /\ ~HasId(ss, sessions[k].id)
  <2>1. \E a, b : a = ss /\ b = next
    OBVIOUS
  <2>2. PICK a, b : a = ss /\ b = next
    BY <2>1
  <2> HIDE DEF ss, next
  <2>3. a = Replaced(RemoveAt(sessions, k)) /\ b = IF Count = 1 THEN next_id + 1 ELSE next_id
    BY <2>2 DEF ss, next
  <2> QED
    BY <1>1, <2>2, <2>3, RestOf
<1>3. first \in Item /\ first.do = "remove" /\ first.id = sessions[k].id /\ first.id # 0
  BY <1>1, Bounds DEF Write, Item, Ids
<1> HIDE DEF ss, next
<1>4. /\ SaveAll(ss) \in Seq(Item) /\ Len(SaveAll(ss)) = Len(ss) + 1
      /\ TodoOK(SaveAll(ss), ss, "up")
      /\ \A i \in 1..Len(ss) : SaveAll(ss)[i + 1] = Write("file", ss[i].id)
      /\ SaveAll(ss)[1] = Write("index", 0)
  BY <1>2, SaveAllProperties, SaveAllIsOK
<1> DEFINE all == SaveAll(ss)
           todo2 == <<first>> \o all
<1> HIDE DEF first, all
<1>5. /\ todo2 \in Seq(Item) /\ Len(todo2) = Len(ss) + 2 /\ todo2[1] = first
      /\ \A i \in 1..(Len(ss) + 1) : todo2[i + 1] = all[i]
  <2>1. all \in Seq(Item) /\ Len(all) = Len(ss) + 1
    BY <1>4 DEF all
  <2> QED
    BY <1>2, <1>3, <2>1, PutFirst
<1>6. sessions' = ss /\ next_id' = next /\ todo' = todo2 /\ Count' = Len(ss)
  BY <1>1 DEF Change, all, Count
<1> HIDE DEF todo2
<1>7. todo2 # <<>> /\ Head(todo2) = first
  BY <1>2, <1>5, EmptySeq, TailOfTodo
<1>8. TodoOK(todo2, ss, "up")
  <2>1. SUFFICES ASSUME NEW i \in 1..Len(todo2)
        PROVE  /\ todo2[i].do = "index" <=> todo2[i].id = 0
               /\ todo2[i].do = "file" => HasId(ss, todo2[i].id)
               /\ todo2[i].do = "remove" => i = 1 /\ "up" = "up" /\ ~HasId(ss, todo2[i].id)
    BY DEF TodoOK
  <2>2. CASE i = 1
    BY <1>2, <1>3, <1>5, <2>2
  <2>3. CASE i # 1
    <3>1. i - 1 \in 1..(Len(ss) + 1) /\ (i - 1) + 1 = i
      BY <1>2, <1>5, <2>3
    <3>2. todo2[i] = all[i - 1]
      BY <1>5, <3>1
    <3>3. /\ all[i - 1].do = "index" <=> all[i - 1].id = 0
          /\ all[i - 1].do = "file" => HasId(ss, all[i - 1].id)
          /\ all[i - 1].do # "remove"
      <4>1. CASE i - 1 = 1
        BY <1>4, <4>1 DEF Write, all
      <4>2. CASE i - 1 # 1
        <5>1. i - 2 \in 1..Len(ss) /\ (i - 2) + 1 = i - 1
          BY <1>2, <3>1, <4>2
        <5>2. all[i - 1] = Write("file", ss[i - 2].id)
          BY <1>4, <5>1 DEF all
        <5>3. ss[i - 2].id # 0
          BY <1>2, <5>1, IdsOfProperties DEF Ids
        <5> QED
          BY <5>1, <5>2, <5>3 DEF Write, HasId
      <4> QED
        BY <4>1, <4>2
    <3> QED
      BY <3>2, <3>3
  <2> QED
    BY <2>2, <2>3
<1>9. /\ mode = "up" /\ todo = <<>> /\ leaving' = sessions[k].chat \ {Garbage}
      /\ UNCHANGED <<mode, opened, index, file, runs, kept, hurt, atQuit>>
      /\ gone' = gone
  <2>1. Change(ss, next, todo2, sessions[k].chat)
    BY <1>1 DEF todo2, all
  <2> QED
    BY <1>7, <2>1 DEF Change, Idle, diskVars
<1>10. leaving' \subseteq Shown \ {Garbage} /\ Shown \ {Garbage} \subseteq Shown' \cup leaving'
  <2>1. leaving' \subseteq Shown \ {Garbage}
    BY <1>9 DEF Shown
  <2>2. ASSUME NEW m \in Shown \ {Garbage}, m \notin leaving'
        PROVE  m \in Shown'
    <3>1. PICK i \in 1..Count : m \in sessions[i].chat
      BY DEF Shown
    <3>2. i # k
      BY <1>9, <2>2, <3>1
    <3>3. PICK j \in 1..Len(ss) : ss[j] = sessions[i]
      BY <1>2, <3>2
    <3> QED
      BY <1>6, <3>1, <3>3 DEF Shown
  <2> QED
    BY <2>1, <2>2
<1>11. leaving' \cap Shown' = {}
  <2>1. SUFFICES ASSUME NEW m \in leaving', NEW j \in 1..Len(ss), m \in ss[j].chat
        PROVE  FALSE
    BY <1>6 DEF Shown
  <2>2. m \in Msgs /\ m \in sessions[k].chat
    BY <1>1, <1>9 DEF TypesInv
  <2>3. PICK i \in 1..Count : i # k /\ ss[j] = sessions[i]
    BY <1>2, <2>1
  <2> QED
    BY <1>1, <2>1, <2>2, <2>3, OneOwner
<1>12. \A m \in leaving' : \E i \in 1..Len(todo') : todo'[i].id = said[m]
  <2>1. \A m \in leaving' : said[m] = sessions[k].id
    BY <1>1, <1>9 DEF OwnInv
  <2>2. 1 \in 1..Len(todo') /\ todo'[1].id = sessions[k].id
    BY <1>2, <1>3, <1>5, <1>6
  <2> QED
    BY <2>1, <2>2
<1>13. \A j \in 1..Count' : \A m \in sessions'[j].chat \ {Garbage} :
         \E i \in 1..Count : sessions[i].id = sessions'[j].id /\ m \in sessions[i].chat
  BY <1>2, <1>6
<1>14. \A s \in Ids : HasId(sessions, s) =>
         HasId(sessions', s) \/ (todo' # <<>> /\ Head(todo') = Write("remove", s))
  <2>1. SUFFICES ASSUME NEW i \in 1..Count
        PROVE  \/ HasId(ss, sessions[i].id)
               \/ todo2 # <<>> /\ Head(todo2) = Write("remove", sessions[i].id)
    BY <1>6 DEF HasId, Count
  <2>2. CASE i = k
    BY <1>7, <2>2 DEF first
  <2>3. CASE i # k
    BY <1>2, <2>3 DEF HasId
  <2> QED
    BY <2>2, <2>3
<1> QED
  BY <1>1, <1>2, <1>5, <1>6, <1>8, <1>9, <1>10, <1>11, <1>12, <1>13, <1>14 DEF Commanded

\* Every command but the end of the program.
LEMMA CommandIs ==
    ASSUME IInv, Command, ~Quit
    PROVE  Commanded
<1>1. ASSUME NEW k \in 1..Count, Say(k) PROVE Commanded
  BY <1>1, Said DEF Say, Change
<1>2. ASSUME NEW k \in 1..Count, Reply(k) PROVE Commanded
  BY <1>2, Said DEF Reply, Change
<1> QED
  BY <1>1, <1>2, Cleared, Deleted, Renamed, Created DEF Command
LEMMA CommandedStep ==
    ASSUME IInv, Commanded
    PROVE  IInv'
<1>0. TypesInv /\ IdsInv /\ TodoInv /\ OwnInv /\ GoneInv /\ KeptInv
  BY DEF IInv
<1>1. /\ Count \in Nat /\ Len(said) \in Nat /\ Len(said) <= MaxMsgs /\ Msgs \subseteq 1..MaxMsgs
      /\ Shown \ {Garbage} \subseteq Msgs /\ said \in Seq(Ids)
      /\ \A m \in Msgs : said[m] \in Ids /\ m # Garbage
  BY <1>0, Basics
<1>2. /\ said' \in Seq(Ids) /\ Len(said') \in Nat /\ Len(said') <= MaxMsgs
      /\ Len(said') >= Len(said) /\ \A m \in Msgs : said'[m] = said[m]
  <2>1. CASE said' = said
    BY <1>1, <2>1
  <2>2. CASE Len(said) < MaxMsgs /\ \E s \in Ids : said' = Append(said, s)
    <3>1. PICK s \in Ids : said' = Append(said, s)
      BY <2>2
    <3>2. /\ said' \in Seq(Ids) /\ Len(said') = Len(said) + 1
          /\ \A m \in 1..Len(said) : said'[m] = said[m]
      BY <1>1, <3>1, AppendProperties
    <3> QED
      BY <1>1, <2>2, <3>2, Bounds DEF Msgs
  <2> QED
    BY <2>1, <2>2 DEF Commanded
<1>3. Msgs \subseteq Msgs'
  BY <1>1, <1>2 DEF Msgs
<1>4. /\ mode = "up" /\ todo = <<>> /\ leaving = {} /\ ~opened
      /\ UNCHANGED <<mode, opened, index, file, runs, gone, kept, hurt, atQuit>>
  BY <1>0 DEF Commanded, GoneInv, TodoInv
<1>5. leaving' \subseteq Shown \ {Garbage} /\ leaving' \subseteq Msgs
  BY <1>1 DEF Commanded
<1>6. ASSUME NEW j \in 1..Count', NEW m \in sessions'[j].chat \ {Garbage}
      PROVE  m \in Msgs' /\ said'[m] = sessions'[j].id /\ (m \in Shown \/ m \notin Msgs)
  <2>1. CASE \E i \in 1..Count : sessions[i].id = sessions'[j].id /\ m \in sessions[i].chat
    <3>1. PICK i \in 1..Count : sessions[i].id = sessions'[j].id /\ m \in sessions[i].chat
      BY <2>1
    <3>2. m \in Msgs /\ said[m] = sessions[i].id /\ m \in Shown
      BY <1>0, <3>1 DEF TypesInv, OwnInv, Shown
    <3> QED
      BY <1>2, <1>3, <3>1, <3>2
  <2>2. CASE Len(said') = Len(said) + 1 /\ m = Len(said') /\ said'[m] = sessions'[j].id
    BY <1>1, <1>2, <2>2 DEF Msgs
  <2> QED
    BY <2>1, <2>2 DEF Commanded
<1>7. TypesInv'
  <2>1. TypeOK
    BY <1>0 DEF TypesInv
  <2>2. sessions' \in Seq(Session) /\ Count' \in 1..MaxSessions /\ sessions' # <<>>
    <3>1. sessions' \in Seq(Session) /\ Len(sessions') \in 1..MaxSessions
      BY DEF Commanded, Count
    <3>2. sessions' = <<>> => Len(sessions') = 0
      BY EmptySeq
    <3> QED
      BY <3>1, <3>2 DEF Count
  <2>3. leaving' \in Chats
    BY <1>1, <1>5, Bounds DEF Chats
  <2>4. TypeOK'
    BY SMTT(30), <1>2, <1>4, <2>1, <2>2, <2>3, Bounds DEF TypeOK, Commanded, Count
  <2>5. Len(index.ids)' <= MaxSessions
    BY <1>0, <1>4 DEF TypesInv
  <2>6. (\A k \in 1..Count : sessions[k].chat \ {Garbage} \subseteq Msgs)'
    BY <1>6
  <2>7. (\A s \in Ids : file[s].chat \ {Garbage} \subseteq Msgs)'
    BY <1>0, <1>3, <1>4 DEF TypesInv
  <2>8. (leaving \cup gone \cup kept)' \subseteq Msgs'
    BY <1>0, <1>3, <1>4, <1>5 DEF TypesInv
  <2> QED
    BY <1>4, <2>4, <2>5, <2>6, <2>7, <2>8 DEF TypesInv
<1>8. IdsInv'
  BY <1>0, <1>4 DEF IdsInv, Commanded
<1>9. TodoInv'
  BY <1>4 DEF TodoInv, Commanded
<1>10. OwnInv'
  <2>1. (\A s \in Ids : \A m \in file[s].chat \ {Garbage} : said[m] = s)'
    BY <1>0, <1>2, <1>4 DEF OwnInv, TypesInv
  <2> QED
    BY <1>6, <2>1 DEF OwnInv
<1>11. GoneInv'
  <2>1. ASSUME NEW m \in (gone \cup leaving)'
        PROVE  /\ m \in Shown' => said'[m] \in hurt'
               /\ m \in Msgs /\ said'[m] = said[m]
    <3>1. m \in Msgs /\ m # Garbage
      BY <1>0, <1>1, <1>4, <1>5 DEF TypesInv
    <3>2. m \in Shown' => m \in Shown
      BY <1>6, <3>1 DEF Shown
    <3>3. m \in leaving' => m \notin Shown'
      BY DEF Commanded
    <3> QED
      BY <1>0, <1>2, <1>4, <3>1, <3>2, <3>3 DEF GoneInv
  <2>2. \A m \in leaving' : \E k \in 1..Len(todo') : todo'[k].id = said'[m]
    BY <2>1 DEF Commanded
  <2>3. leaving' # {} => todo' # <<>>
    <3>1. todo' = <<>> => Len(todo') = 0
      BY EmptySeq
    <3> QED
      BY <2>2, <3>1
  <2>4. \A m \in gone' : said'[m] \in hurt' \/ Clean(m)'
    <3>1. SUFFICES ASSUME NEW m \in gone PROVE said'[m] \in hurt \/ Clean(m)'
      BY <1>4
    <3>2. said'[m] = said[m] /\ (said[m] \in hurt \/ Clean(m))
      BY <1>0, <1>4, <2>1 DEF GoneInv
    <3> QED
      BY <1>4, <3>2 DEF Clean
  <2> QED
    BY <2>1, <2>2, <2>3, <2>4 DEF GoneInv
<1>12. KeptInv'
  <2> SUFFICES ASSUME 0 \notin hurt PROVE (FilesKnown /\ FilesShown /\ KeptSaved)'
    BY <1>4 DEF KeptInv
  <2>1. FilesKnown /\ FilesShown /\ KeptSaved
    BY <1>0 DEF KeptInv
  <2>2. FilesKnown'
    <3>1. \A s \in Ids : file[s].state = "whole" => HasId(sessions, s)
      BY <1>4, <2>1 DEF FilesKnown
    <3> QED
      BY <1>4, <2>1, <3>1 DEF FilesKnown, Commanded
  <2>3. FilesShown'
    BY <1>4, <2>1 DEF FilesShown, Commanded
  <2>4. KeptSaved'
    <3>1. SUFFICES ASSUME NEW m \in kept, m \notin gone, m \notin leaving', said'[m] \notin hurt
          PROVE  Saved(m)'
      BY <1>4 DEF KeptSaved
    <3>2. m \in Msgs /\ m # Garbage /\ said'[m] = said[m]
      BY <1>0, <1>1, <1>2 DEF TypesInv
    <3>3. Saved(m)
      BY <1>4, <2>1, <3>1, <3>2 DEF KeptSaved
    <3>4. m \in Shown'
      BY <1>4, <3>1, <3>2, <3>3 DEF Saved, Commanded
    <3>5. Listed(said[m])'
      BY <1>4, <3>2, <3>3 DEF Saved, Listed
    <3> QED
      BY <1>4, <3>2, <3>3, <3>4, <3>5 DEF Saved, Listed
  <2> QED
    BY <2>2, <2>3, <2>4
<1> QED
  BY <1>7, <1>8, <1>9, <1>10, <1>11, <1>12 DEF IInv
-----------------------------------------------------------------------------
(* What the ends of writes have in common.                                 *)

\* The first write is over: the sessions stay, or the program has ended.
Finished ==
    /\ todo # <<>> /\ opened' = FALSE /\ todo' = Tail(todo)
    /\ UNCHANGED <<said, runs>>
    /\ \/ UNCHANGED <<mode, sessions, next_id>> /\ (mode = "quitting" => todo' # <<>>)
       \/ /\ mode = "quitting" /\ mode' = "down"
          /\ sessions' = <<>> /\ next_id' = 1 /\ todo' = <<>>
    /\ \/ leaving' = leaving /\ gone' = gone /\ todo' # <<>>
       \/ leaving' = {} /\ gone' = gone \cup leaving /\ todo' = <<>>
    /\ kept' = kept \cup (Loadable(index', file') \ {Garbage})

\* What the end of a write may have done to the files.
GoodWrite ==
    /\ Finished
    /\ index' \in [state : State, next_id : 1..(MaxIds + 1), ids : Seq(Ids)]
    /\ Len(index'.ids) <= MaxSessions /\ IdsOK(index'.ids, index'.next_id)
    /\ file' \in [Ids -> [state : State, chat : Chats]]
    /\ \A s \in Ids : \A m \in file'[s].chat \ {Garbage} : m \in Msgs /\ said[m] = s
    /\ hurt \subseteq hurt' /\ hurt' \subseteq 0..MaxIds
    /\ atQuit' \in Seq(Session)
    /\ \A m \in gone \cup leaving :
         Clean(m) \/ said[m] = Head(todo).id => said[m] \in hurt' \/ Clean(m)'
    /\ 0 \notin hurt' =>
         /\ index'.state # "torn"
         /\ mode = "quitting" => index'.state = "whole" /\ index'.ids = IdsOf(sessions)
         /\ \A s \in Ids : file'[s].state = "whole" =>
              /\ HasId(sessions, s)
              /\ file'[s].chat \ {Garbage} \subseteq Shown \cup gone \cup leaving
         /\ \A m \in kept \ (gone \cup leaving) : said[m] \notin hurt' =>
              /\ m \in Shown /\ Listed(said[m])'
              /\ m \in file'[said[m]].chat /\ file'[said[m]].state = "whole"

LEMMA FinishIs ==
    ASSUME NEW ix, NEW fs, Finish(ix, fs), todo # <<>>, UNCHANGED <<said, runs>>,
           sessions \in Seq(Session), todo \in Seq(Item)
    PROVE  Finished /\ index' = ix /\ file' = fs
<1>1. index' = ix /\ file' = fs /\ opened' = FALSE /\ todo' = Tail(todo)
  BY DEF Finish
<1>2. \/ UNCHANGED <<mode, sessions, next_id>> /\ (mode = "quitting" => todo' # <<>>)
      \/ /\ mode = "quitting" /\ mode' = "down"
         /\ sessions' = <<>> /\ next_id' = 1 /\ todo' = <<>>
  BY DEF Finish, Dead, memVars
<1>3. \/ leaving' = leaving /\ gone' = gone /\ todo' # <<>>
      \/ leaving' = {} /\ gone' = gone \cup leaving /\ todo' = <<>>
  BY DEF Finish
<1>4. kept' = kept \cup (Loadable(index', file') \ {Garbage})
  BY <1>1 DEF Finish
<1> QED
  BY <1>1, <1>2, <1>3, <1>4 DEF Finished

\* What a start would load was said.
LEMMA KeptIsSaid ==
    ASSUME GoodWrite
    PROVE  Loadable(index', file') \ {Garbage} \subseteq Msgs
<1> SUFFICES ASSUME NEW m \in Loadable(index', file'), m # Garbage PROVE m \in Msgs
  OBVIOUS
<1>1. PICK i \in 1..Len(index'.ids) : m \in file'[index'.ids[i]].chat
  BY LoadableIs DEF GoodWrite
<1>2. index'.ids[i] \in Ids
  BY DEF GoodWrite
<1> QED
  BY <1>1, <1>2 DEF GoodWrite

LEMMA GoodWriteStep ==
    ASSUME IInv, GoodWrite
    PROVE  IInv'
<1>0. /\ TypesInv /\ IdsInv /\ TodoInv /\ OwnInv /\ GoneInv /\ KeptInv
      /\ Finished /\ TypeOK
  BY DEF IInv, GoodWrite, TypesInv
<1>1. /\ Count \in Nat /\ \A m \in Msgs : said[m] \in Ids /\ m # Garbage
      /\ Msgs \subseteq 1..MaxMsgs
  BY <1>0, Basics
<1>2. /\ todo \in Seq(Item) /\ Len(todo) \in Nat \ {0} /\ 1 \in 1..Len(todo) /\ Head(todo) = todo[1]
      /\ todo' \in Seq(Item) /\ Len(todo') = Len(todo) - 1
      /\ \A i \in 1..(Len(todo) - 1) : todo'[i] = todo[i + 1] /\ i + 1 \in 1..Len(todo)
      /\ todo' = <<>> => Len(todo) = 1
  BY <1>0, TailOfTodo DEF TypeOK, Finished
<1>3. /\ opened' = FALSE /\ said' = said /\ runs' = runs /\ Msgs' = Msgs
      /\ kept' = kept \cup (Loadable(index', file') \ {Garbage})
  BY DEF GoodWrite, Finished, Msgs
<1>4. /\ leaving' \subseteq leaving /\ gone \subseteq gone'
      /\ gone' \cup leaving' = gone \cup leaving
      /\ leaving' # {} => todo' # <<>>
      /\ gone' # gone => todo' = <<>>
  BY <1>0 DEF Finished
<1>5. mode # "down"
  BY <1>0 DEF TypesInv, Finished
<1>6. /\ leaving' \cup gone' \subseteq Msgs /\ kept' \subseteq Msgs
      /\ leaving' \in Chats /\ gone' \in Chats /\ kept' \in Chats
  <2>1. leaving' \cup gone' \subseteq Msgs
    BY <1>0, <1>4 DEF TypesInv
  <2>2. kept' \subseteq Msgs
    BY <1>0, <1>3, KeptIsSaid DEF TypesInv
  <2>3. \A C : C \subseteq Msgs => C \in Chats
    <3>1. 1..MaxMsgs \subseteq 0..MaxMsgs
      BY Bounds
    <3> QED
      BY <1>1, <3>1 DEF Chats
  <2> QED
    BY <2>1, <2>2, <2>3
<1>7. ASSUME mode' # "down"
      PROVE  TypesInv' /\ IdsInv' /\ TodoInv' /\ KeptInv'
  <2>1. /\ UNCHANGED <<mode, sessions, next_id>> /\ (mode = "quitting" => todo' # <<>>)
        /\ Shown' = Shown /\ Count' = Count
    BY <1>0, <1>7 DEF Finished, Shown, Count
  <2>2. TypesInv'
    <3>3. TypeOK'
      BY <1>0, <1>2, <1>3, <1>6, <2>1 DEF TypeOK, GoodWrite
    <3>4. (\A k \in 1..Count : sessions[k].chat \ {Garbage} \subseteq Msgs)'
      BY <1>0, <1>3, <2>1 DEF TypesInv
    <3>5. (\A s \in Ids : file[s].chat \ {Garbage} \subseteq Msgs)'
      BY <1>3 DEF GoodWrite
    <3>6. (mode = "quitting" => sessions # <<>> /\ todo # <<>>)'
      BY <1>0, <2>1 DEF TypesInv
    <3> QED
      BY <1>3, <1>7, <1>6, <3>3, <3>4, <3>5, <3>6 DEF TypesInv, GoodWrite
  <2>3. IdsInv'
    BY <1>0, <2>1 DEF IdsInv, GoodWrite
  <2>4. TodoInv'
    <3>1. SUFFICES ASSUME NEW k \in 1..Len(todo')
          PROVE  /\ todo'[k].do = "index" <=> todo'[k].id = 0
                 /\ todo'[k].do = "file" => HasId(sessions, todo'[k].id)
                 /\ todo'[k].do # "remove"
      BY <1>3, <2>1 DEF TodoInv, TodoOK
    <3>2. todo'[k] = todo[k + 1] /\ k + 1 \in 1..Len(todo) /\ k + 1 # 1
      BY <1>2
    <3> QED
      BY <1>0, <3>2 DEF TodoInv, TodoOK
  <2>5. KeptInv'
    <3> SUFFICES ASSUME 0 \notin hurt' PROVE (FilesKnown /\ FilesShown /\ KeptSaved)'
      BY DEF KeptInv
    <3>1. FilesKnown'
      BY <1>7, <2>1 DEF FilesKnown, GoodWrite
    <3>2. FilesShown'
      BY <1>4, <2>1 DEF FilesShown, GoodWrite
    <3>3. ASSUME NEW m \in kept', m \notin (gone \cup leaving)', said'[m] \notin hurt'
          PROVE  Saved(m)'
      <4>1. CASE m \in kept
        BY <1>3, <1>4, <2>1, <3>3, <4>1 DEF Saved, GoodWrite
      <4>2. CASE m \notin kept
        <5>1. m \in Loadable(index', file') /\ m # Garbage
          BY <1>3, <3>3, <4>2
        <5>2. PICK i \in 1..Len(index'.ids) :
                 /\ index'.state = "whole" /\ file'[index'.ids[i]].state = "whole"
                 /\ m \in file'[index'.ids[i]].chat
          BY <5>1, LoadableIs DEF GoodWrite
        <5>3. index'.ids[i] \in Ids
          BY DEF GoodWrite
        <5>4. said[m] = index'.ids[i]
          BY <5>1, <5>2, <5>3 DEF GoodWrite
        <5>5. m \in Shown
          BY <1>4, <3>3, <5>1, <5>2, <5>3 DEF GoodWrite
        <5>6. Listed(said[m])'
          BY <1>3, <5>2, <5>4 DEF Listed
        <5> QED
          BY <1>3, <2>1, <5>2, <5>4, <5>5, <5>6 DEF Saved
      <4> QED
        BY <4>1, <4>2
    <3> QED
      BY <3>1, <3>2, <3>3 DEF KeptSaved
  <2> QED
    BY <2>2, <2>3, <2>4, <2>5
<1>8. ASSUME mode' = "down"
      PROVE  TypesInv' /\ IdsInv' /\ TodoInv' /\ KeptInv'
  <2>1. /\ mode = "quitting" /\ sessions' = <<>> /\ next_id' = 1 /\ todo' = <<>>
        /\ Shown' = {} /\ Count' = 0 /\ leaving' = {}
    BY <1>0, <1>4, <1>5, <1>8 DEF Finished, Shown, Count
  <2>2. TypesInv'
    <3>3. sessions' \in Seq(Session) /\ Len(sessions') <= MaxSessions /\ next_id' \in 1..(MaxIds + 1)
      BY <2>1, EmptySeq, Bounds
    <3>4. TypeOK'
      BY <1>0, <1>2, <1>3, <1>8, <1>6, <3>3 DEF TypeOK, GoodWrite
    <3>5. (\A s \in Ids : file[s].chat \ {Garbage} \subseteq Msgs)'
      BY <1>3 DEF GoodWrite
    <3> QED
      BY <1>3, <1>8, <1>6, <2>1, <3>4, <3>5 DEF TypesInv, GoodWrite
  <2>3. IdsInv'
    BY <2>1 DEF IdsInv, IdsOK, IdsOf, GoodWrite
  <2>4. TodoInv'
    BY <1>3, <2>1 DEF TodoInv, TodoOK
  <2>5. KeptInv'
    <3> SUFFICES ASSUME 0 \notin hurt' PROVE (FilesKnown /\ FilesShown /\ KeptSaved)'
      BY DEF KeptInv
    <3>1. ASSUME NEW s \in Ids, HasId(sessions, s)
          PROVE  Listed(s)'
      <4>1. index'.state = "whole" /\ index'.ids = IdsOf(sessions) /\ sessions \in Seq(Session)
        BY <1>0, <2>1 DEF GoodWrite, TypeOK
      <4> QED
        BY <3>1, <4>1, IdsOfProperties DEF Listed, HasId
    <3>2. FilesKnown'
      BY <1>8, <3>1 DEF FilesKnown, GoodWrite
    <3>3. FilesShown'
      BY <1>8 DEF FilesShown
    <3>4. ASSUME NEW m \in kept', m \notin (gone \cup leaving)', said'[m] \notin hurt'
          PROVE  Saved(m)'
      <4>1. CASE m \in kept
        BY <1>3, <1>4, <1>8, <3>4, <4>1 DEF Saved, GoodWrite
      <4>2. CASE m \notin kept
        <5>1. m \in Loadable(index', file') /\ m # Garbage
          BY <1>3, <3>4, <4>2
        <5>2. PICK i \in 1..Len(index'.ids) :
                 /\ index'.state = "whole" /\ file'[index'.ids[i]].state = "whole"
                 /\ m \in file'[index'.ids[i]].chat
          BY <5>1, LoadableIs DEF GoodWrite
        <5>3. index'.ids[i] \in Ids
          BY DEF GoodWrite
        <5>4. said[m] = index'.ids[i]
          BY <5>1, <5>2, <5>3 DEF GoodWrite
        <5>5. Listed(said[m])'
          BY <1>3, <5>2, <5>4 DEF Listed
        <5> QED
          BY <1>3, <1>8, <5>2, <5>4, <5>5 DEF Saved
      <4> QED
        BY <4>1, <4>2
    <3> QED
      BY <3>2, <3>3, <3>4 DEF KeptSaved
  <2> QED
    BY <2>2, <2>3, <2>4, <2>5
<1>9. Shown' \subseteq Shown /\ \A k \in 1..Count' : k \in 1..Count /\ sessions'[k] = sessions[k]
  <2>1. sessions' = sessions \/ sessions' = <<>>
    BY <1>0 DEF Finished
  <2>2. CASE sessions' = sessions
    BY <2>2 DEF Shown, Count
  <2>3. CASE sessions' = <<>>
    BY <2>3 DEF Shown, Count
  <2> QED
    BY <2>1, <2>2, <2>3
<1>10. OwnInv'
  <2>1. (\A k \in 1..Count : \A m \in sessions[k].chat \ {Garbage} : said[m] = sessions[k].id)'
    BY <1>0, <1>3, <1>9 DEF OwnInv
  <2>2. (\A s \in Ids : \A m \in file[s].chat \ {Garbage} : said[m] = s)'
    BY <1>3 DEF GoodWrite
  <2> QED
    BY <2>1, <2>2 DEF OwnInv
<1>11. GoneInv'
  <2>1. \A m \in (gone \cup leaving)' : m \in Shown' => said'[m] \in hurt'
    BY <1>0, <1>3, <1>4, <1>9 DEF GoneInv, GoodWrite
  <2>2. \A m \in gone \cup leaving :
          said[m] \in hurt \/ Clean(m) \/ said[m] = Head(todo).id => said[m] \in hurt' \/ Clean(m)'
    BY DEF GoodWrite
  <2>3. ASSUME NEW m \in leaving
        PROVE  \/ said[m] \in hurt' \/ Clean(m)'
               \/ \E k \in 1..Len(todo') : todo'[k].id = said[m]
    <3>1. CASE said[m] \in hurt \/ Clean(m)
      BY <2>2, <3>1
    <3>2. CASE \E k \in 1..Len(todo) : todo[k].id = said[m]
      <4>1. PICK k \in 1..Len(todo) : todo[k].id = said[m]
        BY <3>2
      <4>2. CASE k = 1
        BY <1>2, <2>2, <4>1, <4>2
      <4>3. CASE k # 1
        <5>1. k - 1 \in 1..Len(todo') /\ (k - 1) + 1 = k /\ k - 1 \in 1..(Len(todo) - 1)
          BY <1>2, <4>3
        <5>2. todo'[k - 1] = todo[k]
          BY <1>2, <5>1
        <5> QED
          BY <4>1, <5>1, <5>2
      <4> QED
        BY <4>2, <4>3
    <3> QED
      BY <1>0, <3>1, <3>2 DEF GoneInv
  <2>4. ASSUME NEW m \in gone'
        PROVE  said'[m] \in hurt' \/ Clean(m)'
    <3>1. CASE m \in gone
      BY <1>0, <1>3, <2>2, <3>1 DEF GoneInv
    <3>2. CASE m \notin gone
      <4>1. m \in leaving /\ todo' = <<>>
        BY <1>4, <2>4, <3>2
      <4>2. Len(todo') = 0
        BY <4>1, EmptySeq
      <4> QED
        BY <1>3, <2>3, <4>1, <4>2
    <3> QED
      BY <3>1, <3>2
  <2> QED
    BY <1>3, <1>4, <2>1, <2>3, <2>4 DEF GoneInv
<1> QED
  BY <1>7, <1>8, <1>10, <1>11 DEF IInv
\* When the first write removes nothing, a file that is whole belongs to a
\* session, and holds what is shown or was taken away.
LEMMA WholeIsKnown ==
    ASSUME FilesKnown, FilesShown, mode # "down", Head(todo).do # "remove"
    PROVE  \A s \in Ids : file[s].state = "whole" =>
             /\ HasId(sessions, s)
             /\ file[s].chat \ {Garbage} \subseteq Shown \cup gone \cup leaving
<1> SUFFICES ASSUME NEW s \in Ids, file[s].state = "whole"
    PROVE  /\ HasId(sessions, s)
           /\ file[s].chat \ {Garbage} \subseteq Shown \cup gone \cup leaving
  OBVIOUS
<1>1. Head(todo) # Write("remove", s)
  BY DEF Write
<1>2. HasId(sessions, s)
  BY <1>1 DEF FilesKnown
<1> QED
  BY <1>2 DEF FilesShown

\* The invariant, and what it says of the first write.
LEMMA FirstWrite ==
    ASSUME IInv, todo # <<>>
    PROVE  /\ TypesInv /\ TypeOK /\ IdsInv /\ TodoInv /\ OwnInv /\ GoneInv /\ KeptInv
           /\ mode # "down"
           /\ Head(todo) \in Item /\ Head(todo).id \in 0..MaxIds
           /\ Head(todo).do = "index" <=> Head(todo).id = 0
           /\ Head(todo).do = "file" => HasId(sessions, Head(todo).id) /\ Head(todo).id \in Ids
           /\ Head(todo).do = "remove" =>
                mode = "up" /\ ~HasId(sessions, Head(todo).id) /\ Head(todo).id \in Ids
           /\ sessions \in Seq(Session) /\ todo \in Seq(Item)
           /\ \A m \in Msgs : said[m] \in Ids /\ said[m] # 0 /\ m # Garbage
           /\ gone \cup leaving \cup kept \subseteq Msgs
<1>1. /\ TypesInv /\ TypeOK /\ IdsInv /\ TodoInv /\ OwnInv /\ GoneInv /\ KeptInv /\ mode # "down"
      /\ sessions \in Seq(Session) /\ todo \in Seq(Item)
      /\ gone \cup leaving \cup kept \subseteq Msgs
  BY DEF IInv, TypesInv, TypeOK
<1>2. \A m \in Msgs : said[m] \in Ids /\ said[m] # 0 /\ m # Garbage
  BY <1>1, Basics DEF Ids
<1>3. 1 \in 1..Len(todo) /\ Head(todo) = todo[1] /\ Head(todo) \in Item
  BY <1>1, TailOfTodo
<1>4. /\ Head(todo).do = "index" <=> Head(todo).id = 0
      /\ Head(todo).do = "file" => HasId(sessions, Head(todo).id)
      /\ Head(todo).do = "remove" => mode = "up" /\ ~HasId(sessions, Head(todo).id)
  BY <1>1, <1>3 DEF TodoInv, TodoOK
<1>5. Head(todo).id \in 0..MaxIds /\ (Head(todo).id # 0 => Head(todo).id \in Ids)
  BY <1>3, Bounds DEF Item, Ids
<1> QED
  BY <1>1, <1>2, <1>3, <1>4, <1>5

LEMMA WriteFailsIsGood ==
    ASSUME IInv, WriteFails
    PROVE  GoodWrite
<1>1. /\ todo # <<>> /\ Head(todo).do # "remove"
      /\ hurt' = hurt \cup {Head(todo).id} /\ atQuit' = <<>>
      /\ Finish(index, file) /\ UNCHANGED <<runs, said>>
  BY DEF WriteFails, Doing
<1>2. /\ TypesInv /\ TypeOK /\ IdsInv /\ TodoInv /\ OwnInv /\ GoneInv /\ KeptInv
      /\ mode # "down" /\ Head(todo).id \in 0..MaxIds
      /\ Head(todo).do = "index" <=> Head(todo).id = 0
      /\ sessions \in Seq(Session) /\ todo \in Seq(Item)
      /\ gone \cup leaving \cup kept \subseteq Msgs
  BY <1>1, FirstWrite
<1>3. Finished /\ index' = index /\ file' = file
  BY <1>1, <1>2, FinishIs
<1>4. /\ index' \in [state : State, next_id : 1..(MaxIds + 1), ids : Seq(Ids)]
      /\ Len(index'.ids) <= MaxSessions /\ IdsOK(index'.ids, index'.next_id)
      /\ file' \in [Ids -> [state : State, chat : Chats]]
      /\ hurt \subseteq hurt' /\ hurt' \subseteq 0..MaxIds
      /\ atQuit' \in Seq(Session)
  BY <1>1, <1>2, <1>3, EmptySeq DEF TypesInv, TypeOK, IdsInv
<1>5. \A s \in Ids : \A m \in file'[s].chat \ {Garbage} : m \in Msgs /\ said[m] = s
  BY <1>2, <1>3 DEF TypesInv, OwnInv
<1>6. \A m \in gone \cup leaving :
        Clean(m) \/ said[m] = Head(todo).id => said[m] \in hurt' \/ Clean(m)'
  BY <1>1, <1>3 DEF Clean
<1>7. ASSUME 0 \notin hurt'
      PROVE  /\ index'.state # "torn"
             /\ mode = "quitting" => index'.state = "whole" /\ index'.ids = IdsOf(sessions)
             /\ \A s \in Ids : file'[s].state = "whole" =>
                  /\ HasId(sessions, s)
                  /\ file'[s].chat \ {Garbage} \subseteq Shown \cup gone \cup leaving
             /\ \A m \in kept \ (gone \cup leaving) : said[m] \notin hurt' =>
                  /\ m \in Shown /\ Listed(said[m])'
                  /\ m \in file'[said[m]].chat /\ file'[said[m]].state = "whole"
  <2>1. 0 \notin hurt /\ Head(todo).do # "index" /\ FilesKnown /\ FilesShown /\ KeptSaved
    BY <1>1, <1>2, <1>7 DEF KeptInv
  <2>2. /\ index.state # "torn"
        /\ mode = "quitting" => index.state = "whole" /\ index.ids = IdsOf(sessions)
    BY <1>1, <2>1 DEF FilesKnown, Doing
  <2>3. \A s \in Ids : file[s].state = "whole" =>
          /\ HasId(sessions, s)
          /\ file[s].chat \ {Garbage} \subseteq Shown \cup gone \cup leaving
    BY <1>1, <1>2, <2>1, WholeIsKnown
  <2>4. \A m \in kept \ (gone \cup leaving) : said[m] \notin hurt' =>
          /\ m \in Shown /\ Listed(said[m])'
          /\ m \in file[said[m]].chat /\ file[said[m]].state = "whole"
    <3>1. ASSUME NEW m \in kept \ (gone \cup leaving), said[m] \notin hurt'
          PROVE  Head(todo) # Write("file", said[m])
      BY <1>1, <3>1 DEF Write
    <3>2. QED
      BY <1>1, <1>2, <1>3, <2>1, <3>1 DEF KeptSaved, Saved, Listed
  <2> QED
    BY <1>1, <1>3, <2>2, <2>3, <2>4
<1> QED
  BY <1>3, <1>4, <1>5, <1>6, <1>7 DEF GoodWrite

LEMMA WriteIndexIsGood ==
    ASSUME IInv, WriteIndex
    PROVE  GoodWrite
<1> DEFINE ix == [state |-> "whole", next_id |-> next_id, ids |-> IdsOf(sessions)]
<1>1. /\ todo # <<>> /\ Head(todo).do = "index" /\ opened
      /\ hurt' = hurt /\ atQuit' = atQuit
      /\ Finish(ix, file) /\ UNCHANGED <<runs, said>>
  BY DEF WriteIndex, Doing
<1>2. /\ TypesInv /\ TypeOK /\ IdsInv /\ TodoInv /\ OwnInv /\ GoneInv /\ KeptInv
      /\ mode # "down" /\ Head(todo).id = 0
      /\ sessions \in Seq(Session) /\ todo \in Seq(Item)
      /\ gone \cup leaving \cup kept \subseteq Msgs
      /\ \A m \in Msgs : said[m] \in Ids /\ said[m] # 0 /\ m # Garbage
  BY <1>1, FirstWrite
<1>3. /\ ix \in [state : State, next_id : 1..(MaxIds + 1), ids : Seq(Ids)]
      /\ ix.state = "whole" /\ ix.ids = IdsOf(sessions) /\ ix.next_id = next_id
      /\ Len(ix.ids) = Count
      /\ \A k \in 1..Count : ix.ids[k] = sessions[k].id
  BY <1>2, IdsOfProperties DEF TypeOK, State, Count
<1> HIDE DEF ix
<1>4. Finished /\ index' = ix /\ file' = file
  BY <1>1, <1>2, FinishIs
<1>5. /\ Len(index'.ids) <= MaxSessions /\ IdsOK(index'.ids, index'.next_id)
      /\ file' \in [Ids -> [state : State, chat : Chats]]
      /\ hurt \subseteq hurt' /\ hurt' \subseteq 0..MaxIds
      /\ atQuit' \in Seq(Session)
  BY <1>1, <1>2, <1>3, <1>4 DEF TypeOK, IdsInv, Count
<1>6. \A s \in Ids : \A m \in file'[s].chat \ {Garbage} : m \in Msgs /\ said[m] = s
  BY <1>2, <1>4 DEF TypesInv, OwnInv
<1>7. \A m \in gone \cup leaving :
        Clean(m) \/ said[m] = Head(todo).id => said[m] \in hurt' \/ Clean(m)'
  <2>1. UNCHANGED <<said, file>>
    BY <1>1, <1>4
  <2> QED
    BY <1>2, <2>1 DEF Clean
<1>8. ASSUME 0 \notin hurt'
      PROVE  /\ index'.state # "torn"
             /\ mode = "quitting" => index'.state = "whole" /\ index'.ids = IdsOf(sessions)
             /\ \A s \in Ids : file'[s].state = "whole" =>
                  /\ HasId(sessions, s)
                  /\ file'[s].chat \ {Garbage} \subseteq Shown \cup gone \cup leaving
             /\ \A m \in kept \ (gone \cup leaving) : said[m] \notin hurt' =>
                  /\ m \in Shown /\ Listed(said[m])'
                  /\ m \in file'[said[m]].chat /\ file'[said[m]].state = "whole"
  <2>1. 0 \notin hurt /\ FilesKnown /\ FilesShown /\ KeptSaved
    BY <1>1, <1>2, <1>8 DEF KeptInv
  <2>2. \A s \in Ids : file[s].state = "whole" =>
          /\ HasId(sessions, s)
          /\ file[s].chat \ {Garbage} \subseteq Shown \cup gone \cup leaving
    BY <1>1, <1>2, <2>1, WholeIsKnown
  <2>3. ASSUME NEW m \in kept \ (gone \cup leaving), said[m] \notin hurt
        PROVE  /\ m \in Shown /\ Listed(said[m])'
               /\ m \in file[said[m]].chat /\ file[said[m]].state = "whole"
    <3>1. m \in Shown /\ m \in file[said[m]].chat /\ file[said[m]].state = "whole"
      BY <1>1, <1>2, <2>1, <2>3 DEF KeptSaved, Saved, Write
    <3>2. PICK k \in 1..Count : m \in sessions[k].chat
      BY <3>1 DEF Shown
    <3>3. said[m] = ix.ids[k]
      BY <1>2, <1>3, <3>2 DEF OwnInv
    <3>4. Listed(said[m])'
      BY <1>1, <1>3, <1>4, <3>3 DEF Listed
    <3> QED
      BY <3>1, <3>4
  <2> QED
    BY <1>1, <1>3, <1>4, <2>2, <2>3
<1> QED
  BY <1>3, <1>4, <1>5, <1>6, <1>7, <1>8 DEF GoodWrite

LEMMA WriteFileIsGood ==
    ASSUME IInv, WriteFile
    PROVE  GoodWrite
<1>1. /\ todo # <<>> /\ Head(todo).do = "file" /\ opened
      /\ atQuit' = atQuit /\ UNCHANGED <<runs, said>>
  BY DEF WriteFile, Doing
<1>2. /\ TypesInv /\ TypeOK /\ IdsInv /\ TodoInv /\ OwnInv /\ GoneInv /\ KeptInv
      /\ mode # "down" /\ Head(todo).id # 0
      /\ sessions \in Seq(Session) /\ todo \in Seq(Item)
      /\ gone \cup leaving \cup kept \subseteq Msgs
      /\ \A m \in Msgs : said[m] \in Ids /\ said[m] # 0 /\ m # Garbage
  BY <1>1, FirstWrite
<1>30. PICK k \in 1..Count : \E chat \in {sessions[k].chat, {Garbage}} :
        /\ sessions[k].id = Head(todo).id
        /\ Finish(index, [file EXCEPT ![sessions[k].id] = [state |-> "whole", chat |-> chat]])
        /\ hurt' = IF chat = sessions[k].chat THEN hurt ELSE hurt \cup {sessions[k].id}
  BY DEF WriteFile, ChatToSave
<1>3. PICK chat \in {sessions[k].chat, {Garbage}} :
        /\ sessions[k].id = Head(todo).id
        /\ Finish(index, [file EXCEPT ![sessions[k].id] = [state |-> "whole", chat |-> chat]])
        /\ hurt' = IF chat = sessions[k].chat THEN hurt ELSE hurt \cup {sessions[k].id}
  BY <1>30
<1> DEFINE id == sessions[k].id
           fs == [file EXCEPT ![id] = [state |-> "whole", chat |-> chat]]
<1>4. /\ sessions[k] \in Session /\ id \in Ids /\ sessions[k].chat \in Chats
      /\ chat \in Chats /\ HasId(sessions, id) /\ id \in 0..MaxIds
  <2>1. sessions[k] \in Session /\ id \in Ids /\ sessions[k].chat \in Chats
    BY <1>2, Basics
  <2>2. {Garbage} \in Chats
    BY Bounds DEF Chats, Garbage
  <2>3. chat \in Chats
    BY <1>3, <2>1, <2>2
  <2>4. HasId(sessions, id)
    BY DEF HasId, Count
  <2>5. id \in 0..MaxIds
    BY <2>1, Bounds DEF Ids
  <2> QED
    BY <2>1, <2>3, <2>4, <2>5
<1>5. /\ fs \in [Ids -> [state : State, chat : Chats]]
      /\ fs[id].state = "whole" /\ fs[id].chat = chat
      /\ \A s \in Ids : s # id => fs[s] = file[s]
  <2>1. file \in [Ids -> [state : State, chat : Chats]]
    BY <1>2 DEF TypeOK
  <2>2. [state |-> "whole", chat |-> chat] \in [state : State, chat : Chats]
    BY <1>4 DEF State
  <2> QED
    BY <1>4, <2>1, <2>2
<1>6. Finish(index, fs)
  BY <1>3
<1>7. /\ hurt' = IF chat = sessions[k].chat THEN hurt ELSE hurt \cup {id}
      /\ Head(todo).id = id
  BY <1>3
<1> HIDE DEF fs, id
<1>8. Finished /\ index' = index /\ file' = fs
  BY <1>1, <1>2, <1>6, FinishIs
<1>9. /\ index' \in [state : State, next_id : 1..(MaxIds + 1), ids : Seq(Ids)]
      /\ Len(index'.ids) <= MaxSessions /\ IdsOK(index'.ids, index'.next_id)
      /\ file' \in [Ids -> [state : State, chat : Chats]]
      /\ hurt \subseteq hurt' /\ hurt' \subseteq 0..MaxIds
      /\ atQuit' \in Seq(Session)
  BY <1>1, <1>2, <1>4, <1>5, <1>7, <1>8 DEF TypesInv, TypeOK, IdsInv
<1>10. \A m \in chat \ {Garbage} : m \in Msgs /\ said[m] = id /\ m \in Shown
  BY <1>2, <1>3 DEF TypesInv, OwnInv, Shown, id
<1>11. \A s \in Ids : \A m \in file'[s].chat \ {Garbage} : m \in Msgs /\ said[m] = s
  BY <1>2, <1>5, <1>8, <1>10 DEF TypesInv, OwnInv
<1>12. ASSUME NEW m \in gone \cup leaving, Clean(m) \/ said[m] = Head(todo).id
       PROVE  said[m] \in hurt' \/ Clean(m)'
  <2>1. m \in Msgs /\ m # Garbage /\ said[m] \in Ids /\ said' = said
    BY <1>1, <1>2
  <2>2. CASE said[m] = id
    <3>1. m \in Shown => said[m] \in hurt
      BY <1>2 DEF GoneInv
    <3>2. m \in chat => said[m] \in hurt
      BY <1>10, <2>1, <3>1
    <3> QED
      BY <1>5, <1>8, <1>9, <2>1, <2>2, <3>2 DEF Clean
  <2>3. CASE said[m] # id
    BY <1>5, <1>7, <1>8, <1>12, <2>1, <2>3 DEF Clean
  <2> QED
    BY <2>2, <2>3
<1>13. ASSUME 0 \notin hurt'
       PROVE  /\ index'.state # "torn"
              /\ mode = "quitting" => index'.state = "whole" /\ index'.ids = IdsOf(sessions)
              /\ \A s \in Ids : file'[s].state = "whole" =>
                   /\ HasId(sessions, s)
                   /\ file'[s].chat \ {Garbage} \subseteq Shown \cup gone \cup leaving
              /\ \A m \in kept \ (gone \cup leaving) : said[m] \notin hurt' =>
                   /\ m \in Shown /\ Listed(said[m])'
                   /\ m \in file'[said[m]].chat /\ file'[said[m]].state = "whole"
  <2>1. 0 \notin hurt /\ FilesKnown /\ FilesShown /\ KeptSaved
    BY <1>2, <1>9, <1>13 DEF KeptInv
  <2>2. /\ index.state # "torn"
        /\ mode = "quitting" => index.state = "whole" /\ index.ids = IdsOf(sessions)
    BY <1>1, <2>1 DEF FilesKnown, Doing
  <2>3. \A s \in Ids : file[s].state = "whole" =>
          /\ HasId(sessions, s)
          /\ file[s].chat \ {Garbage} \subseteq Shown \cup gone \cup leaving
    BY <1>1, <1>2, <2>1, WholeIsKnown
  <2>4. \A s \in Ids : fs[s].state = "whole" =>
          /\ HasId(sessions, s)
          /\ fs[s].chat \ {Garbage} \subseteq Shown \cup gone \cup leaving
    BY <1>4, <1>5, <1>10, <2>3
  <2>5. ASSUME NEW m \in kept \ (gone \cup leaving), said[m] \notin hurt'
        PROVE  /\ m \in Shown /\ Listed(said[m])'
               /\ m \in fs[said[m]].chat /\ fs[said[m]].state = "whole"
    <3>1. m \in Msgs /\ m # Garbage /\ said[m] \in Ids /\ Saved(m)
      BY <1>2, <1>9, <2>1, <2>5 DEF KeptSaved
    <3>2. m \in Shown /\ Listed(said[m])'
      BY <1>1, <1>2, <1>8, <3>1 DEF Saved, Listed
    <3>3. CASE said[m] = id
      <4>1. chat = sessions[k].chat
        BY <1>7, <2>5, <3>3
      <4>2. PICK j \in 1..Count : m \in sessions[j].chat
        BY <3>2 DEF Shown
      <4>3. sessions[j].id = sessions[k].id
        BY <1>2, <3>1, <3>3, <4>2 DEF OwnInv, id
      <4>4. j = k
        BY <1>2, <4>3, IdsOKIs DEF IdsInv, Count
      <4> QED
        BY <1>5, <3>2, <3>3, <4>1, <4>2, <4>4
    <3>4. CASE said[m] # id
      BY <1>5, <1>7, <3>1, <3>2, <3>4 DEF Saved, Write
    <3> QED
      BY <3>3, <3>4
  <2> QED
    BY <1>8, <2>2, <2>4, <2>5
<1> QED
  BY <1>8, <1>9, <1>11, <1>12, <1>13 DEF GoodWrite
LEMMA RemoveFileIsGood ==
    ASSUME IInv, RemoveFile
    PROVE  GoodWrite
<1> DEFINE id == Head(todo).id
           fs == [file EXCEPT ![id] = [state |-> "none", chat |-> {}]]
<1>1. /\ todo # <<>> /\ Head(todo).do = "remove"
      /\ hurt' = hurt /\ atQuit' = atQuit
      /\ Finish(index, fs) /\ UNCHANGED <<runs, said>>
  BY DEF RemoveFile, Doing
<1>2. /\ TypesInv /\ TypeOK /\ IdsInv /\ TodoInv /\ OwnInv /\ GoneInv /\ KeptInv
      /\ mode = "up" /\ id \in Ids /\ ~HasId(sessions, id)
      /\ sessions \in Seq(Session) /\ todo \in Seq(Item)
      /\ gone \cup leaving \cup kept \subseteq Msgs
      /\ \A m \in Msgs : said[m] \in Ids /\ said[m] # 0 /\ m # Garbage
  BY <1>1, FirstWrite
<1>3. /\ fs \in [Ids -> [state : State, chat : Chats]]
      /\ fs[id].state = "none" /\ fs[id].chat = {}
      /\ \A s \in Ids : s # id => fs[s] = file[s]
  <2>1. file \in [Ids -> [state : State, chat : Chats]]
    BY <1>2 DEF TypeOK
  <2>2. [state |-> "none", chat |-> {}] \in [state : State, chat : Chats]
    BY DEF State, Chats
  <2> QED
    BY <1>2, <2>1, <2>2
<1> HIDE DEF fs
<1>4. Finished /\ index' = index /\ file' = fs
  BY <1>1, <1>2, FinishIs
<1>5. /\ index' \in [state : State, next_id : 1..(MaxIds + 1), ids : Seq(Ids)]
      /\ Len(index'.ids) <= MaxSessions /\ IdsOK(index'.ids, index'.next_id)
      /\ file' \in [Ids -> [state : State, chat : Chats]]
      /\ hurt \subseteq hurt' /\ hurt' \subseteq 0..MaxIds
      /\ atQuit' \in Seq(Session)
  BY <1>1, <1>2, <1>3, <1>4 DEF TypesInv, TypeOK, IdsInv
<1>6. \A s \in Ids : \A m \in file'[s].chat \ {Garbage} : m \in Msgs /\ said[m] = s
  BY <1>2, <1>3, <1>4 DEF TypesInv, OwnInv
<1>7. ASSUME NEW m \in gone \cup leaving, Clean(m) \/ said[m] = id
      PROVE  said[m] \in hurt' \/ Clean(m)'
  <2>1. m \in Msgs /\ said[m] \in Ids /\ said' = said
    BY <1>1, <1>2
  <2>2. CASE said[m] = id
    BY <1>3, <1>4, <2>1, <2>2 DEF Clean
  <2>3. CASE said[m] # id
    BY <1>3, <1>4, <1>7, <2>1, <2>3 DEF Clean
  <2> QED
    BY <2>2, <2>3
<1>8. ASSUME 0 \notin hurt'
      PROVE  /\ index'.state # "torn"
             /\ \A s \in Ids : file'[s].state = "whole" =>
                  /\ HasId(sessions, s)
                  /\ file'[s].chat \ {Garbage} \subseteq Shown \cup gone \cup leaving
             /\ \A m \in kept \ (gone \cup leaving) : said[m] \notin hurt' =>
                  /\ m \in Shown /\ Listed(said[m])'
                  /\ m \in file'[said[m]].chat /\ file'[said[m]].state = "whole"
  <2>1. 0 \notin hurt /\ FilesKnown /\ FilesShown /\ KeptSaved
    BY <1>1, <1>2, <1>8 DEF KeptInv
  <2>2. index.state # "torn"
    BY <1>1, <2>1 DEF FilesKnown, Doing
  <2>3. ASSUME NEW s \in Ids, fs[s].state = "whole"
        PROVE  /\ HasId(sessions, s)
               /\ fs[s].chat \ {Garbage} \subseteq Shown \cup gone \cup leaving
    <3>1. s # id /\ file[s].state = "whole" /\ fs[s] = file[s]
      BY <1>3, <2>3
    <3>2. Head(todo) # Write("remove", s)
      BY <3>1 DEF Write
    <3> QED
      BY <1>2, <2>1, <3>1, <3>2 DEF FilesKnown, FilesShown
  <2>4. ASSUME NEW m \in kept \ (gone \cup leaving), said[m] \notin hurt
        PROVE  /\ m \in Shown /\ Listed(said[m])'
               /\ m \in fs[said[m]].chat /\ fs[said[m]].state = "whole"
    <3>1. m \in Msgs /\ m # Garbage /\ said[m] \in Ids /\ Saved(m) /\ said' = said
      BY <1>1, <1>2, <2>1, <2>4 DEF KeptSaved
    <3>2. m \in Shown /\ Listed(said[m])'
      BY <1>2, <1>4, <3>1 DEF Saved, Listed
    <3>3. PICK j \in 1..Count : m \in sessions[j].chat
      BY <3>2 DEF Shown
    <3>4. sessions[j].id = said[m]
      BY <1>2, <3>1, <3>3 DEF OwnInv
    <3>5. said[m] # id
      BY <1>2, <3>4 DEF HasId, Count
    <3>6. Head(todo) # Write("file", said[m])
      BY <1>1 DEF Write
    <3> QED
      BY <1>3, <3>1, <3>2, <3>5, <3>6 DEF Saved
  <2> QED
    BY <1>1, <1>4, <2>2, <2>3, <2>4
<1> QED
  BY <1>2, <1>4, <1>5, <1>6, <1>7, <1>8 DEF GoodWrite

-----------------------------------------------------------------------------
(* The other steps.                                                        *)

LEMMA OpenStep ==
    ASSUME IInv, Open
    PROVE  IInv'
<1> DEFINE id == Head(todo).id
<1>1. /\ todo # <<>> /\ Head(todo).do # "remove" /\ ~opened /\ opened' = TRUE
      /\ index' = IF Head(todo).do = "index" THEN [index EXCEPT !.state = "torn"] ELSE index
      /\ file' = IF Head(todo).do = "file" THEN [file EXCEPT ![id].state = "torn"] ELSE file
      /\ UNCHANGED <<mode, sessions, next_id, todo, runs, said, leaving, gone, kept, hurt, atQuit>>
      /\ Msgs' = Msgs /\ Shown' = Shown /\ Count' = Count
  BY DEF Open, Doing, memVars, Msgs, Shown, Count
<1>2. /\ TypesInv /\ TypeOK /\ IdsInv /\ TodoInv /\ OwnInv /\ GoneInv /\ KeptInv
      /\ mode # "down" /\ (Head(todo).do = "index" <=> id = 0)
      /\ Head(todo).do = "file" => HasId(sessions, id) /\ id \in Ids
      /\ Head(todo) \in Item
      /\ sessions \in Seq(Session) /\ todo \in Seq(Item)
      /\ gone \cup leaving \cup kept \subseteq Msgs
      /\ \A m \in Msgs : said[m] \in Ids /\ said[m] # 0 /\ m # Garbage
  BY <1>1, FirstWrite
<1>3. /\ index' \in [state : State, next_id : 1..(MaxIds + 1), ids : Seq(Ids)]
      /\ index'.ids = index.ids /\ index'.next_id = index.next_id
      /\ index'.state = IF Head(todo).do = "index" THEN "torn" ELSE index.state
  <2>1. index \in [state : State, next_id : 1..(MaxIds + 1), ids : Seq(Ids)]
    BY <1>2 DEF TypeOK
  <2> QED
    BY <1>1, <2>1 DEF State
<1>4. /\ file' \in [Ids -> [state : State, chat : Chats]]
      /\ \A s \in Ids : file'[s].chat = file[s].chat
      /\ \A s \in Ids : file'[s].state =
           IF Head(todo).do = "file" /\ s = id THEN "torn" ELSE file[s].state
  <2>1. file \in [Ids -> [state : State, chat : Chats]]
    BY <1>2 DEF TypeOK
  <2>2. CASE Head(todo).do = "file"
    <3>1. [file[id] EXCEPT !.state = "torn"] \in [state : State, chat : Chats]
          /\ [file[id] EXCEPT !.state = "torn"].chat = file[id].chat
          /\ [file[id] EXCEPT !.state = "torn"].state = "torn"
      BY <1>2, <2>1, <2>2 DEF State
    <3>2. file' = [file EXCEPT ![id] = [file[id] EXCEPT !.state = "torn"]]
      BY <1>1, <2>2
    <3> HIDE DEF id
    <3> QED
      BY <1>2, <2>1, <2>2, <3>1, <3>2
  <2>3. CASE Head(todo).do # "file"
    BY <1>1, <2>1, <2>3
  <2> QED
    BY <2>2, <2>3
<1> HIDE DEF id
<1>5. TypesInv'
  <2>1. TypeOK'
    BY <1>1, <1>2, <1>3, <1>4 DEF TypeOK
  <2> QED
    BY <1>1, <1>2, <1>3, <1>4, <2>1 DEF TypesInv
<1>6. IdsInv'
  BY <1>1, <1>2, <1>3 DEF IdsInv
<1>7. TodoInv'
  BY <1>1, <1>2 DEF TodoInv, Doing
<1>8. OwnInv'
  BY <1>1, <1>2, <1>4 DEF OwnInv
<1>9. GoneInv'
  <2>1. \A m \in gone \cup leaving : Clean(m) => Clean(m)'
    BY <1>1, <1>2, <1>4 DEF Clean
  <2>2. \A m \in gone' : said'[m] \in hurt' \/ Clean(m)'
    BY <1>1, <1>2, <2>1 DEF GoneInv
  <2>3. \A m \in leaving' : \/ said'[m] \in hurt' \/ Clean(m)'
                            \/ \E k \in 1..Len(todo') : todo'[k].id = said'[m]
    BY <1>1, <1>2, <2>1 DEF GoneInv
  <2> QED
    BY <1>1, <1>2, <2>2, <2>3 DEF GoneInv
<1>10. KeptInv'
  <2> SUFFICES ASSUME 0 \notin hurt PROVE (FilesKnown /\ FilesShown /\ KeptSaved)'
    BY <1>1 DEF KeptInv
  <2>1. FilesKnown /\ FilesShown /\ KeptSaved
    BY <1>2 DEF KeptInv
  <2>2. index.state # "torn" /\ \A s : HasId(sessions', s) <=> HasId(sessions, s)
    BY <1>1, <2>1 DEF FilesKnown
  <2>3. FilesKnown'
    <3>1. (\A s \in Ids : file[s].state = "whole" =>
             IF mode = "down" THEN Listed(s)
             ELSE HasId(sessions, s) \/ (todo # <<>> /\ Head(todo) = Write("remove", s)))'
      BY <1>1, <1>2, <1>4, <2>1 DEF FilesKnown
    <3>2. (index.state = "torn" => opened /\ Doing("index"))'
      BY <1>1, <1>3, <2>2 DEF Doing
    <3>3. (mode = "quitting" =>
             Head(todo).do = "index" \/ (index.state = "whole" /\ index.ids = IdsOf(sessions)))'
      BY <1>1, <1>3, <2>1 DEF FilesKnown
    <3> QED
      BY <3>1, <3>2, <3>3 DEF FilesKnown
  <2>4. FilesShown'
    BY <1>1, <1>4, <2>1 DEF FilesShown
  <2>5. ASSUME NEW m \in kept \ (gone \cup leaving), said[m] \notin hurt
        PROVE  Saved(m)'
    <3>1. m \in Msgs /\ said[m] \in Ids /\ Saved(m) /\ file[said[m]].state = "whole"
      BY <1>1, <1>2, <2>1, <2>5 DEF KeptSaved, Saved
    <3>2. Listed(said[m])'
      BY <1>1, <1>3, <3>1 DEF Saved, Listed
    <3>3. CASE Head(todo).do = "file" /\ said[m] = id
      <4>1. Head(todo) = Write("file", said[m])
        BY <1>2, <3>3 DEF Item, Write, id
      <4> QED
        BY <1>1, <1>4, <3>1, <3>2, <4>1 DEF Saved
    <3>4. CASE ~(Head(todo).do = "file" /\ said[m] = id)
      BY <1>1, <1>4, <3>1, <3>2, <3>4 DEF Saved
    <3> QED
      BY <3>3, <3>4
  <2> QED
    BY <1>1, <2>3, <2>4, <2>5 DEF KeptSaved
<1> QED
  BY <1>5, <1>6, <1>7, <1>8, <1>9, <1>10 DEF IInv

LEMMA QuitStep ==
    ASSUME IInv, Quit
    PROVE  IInv'
<1>1. /\ mode = "up" /\ todo = <<>> /\ mode' = "quitting" /\ todo' = SaveAll(sessions)
      /\ atQuit' = sessions
      /\ UNCHANGED <<sessions, next_id, opened, index, file, runs, said, leaving, gone, kept, hurt>>
      /\ Msgs' = Msgs /\ Shown' = Shown /\ Count' = Count
  BY DEF Quit, Idle, memVars, diskVars, Msgs, Shown, Count
<1>2. /\ TypesInv /\ TypeOK /\ IdsInv /\ TodoInv /\ OwnInv /\ GoneInv /\ KeptInv
      /\ sessions \in Seq(Session) /\ sessions # <<>> /\ ~opened /\ leaving = {}
  BY <1>1 DEF IInv, TypesInv, TypeOK, TodoInv, GoneInv
<1>3. /\ todo' \in Seq(Item) /\ TodoOK(todo', sessions, "quitting")
      /\ todo' # <<>> /\ Head(todo') = Write("index", 0)
  <2>1. todo' \in Seq(Item) /\ TodoOK(todo', sessions, "quitting")
        /\ Len(todo') = Len(sessions) + 1 /\ todo'[1] = Write("index", 0)
    BY <1>1, <1>2, SaveAllProperties, SaveAllIsOK
  <2>2. todo' = <<>> => Len(todo') = 0
    BY EmptySeq
  <2>3. Len(sessions) \in Nat
    BY <1>2, LenProperties
  <2>4. todo' # <<>>
    BY <2>1, <2>2, <2>3
  <2> QED
    BY <2>1, <2>4, TailOfTodo
<1>4. TypesInv'
  <2>1. TypeOK'
    BY <1>1, <1>2, <1>3 DEF TypeOK
  <2> QED
    BY <1>1, <1>2, <1>3, <2>1 DEF TypesInv
<1>5. IdsInv' /\ TodoInv' /\ OwnInv'
  BY <1>1, <1>2, <1>3 DEF IdsInv, TodoInv, OwnInv
<1>6. GoneInv'
  <2>1. \A m \in gone' : said'[m] \in hurt' \/ Clean(m)'
    BY <1>1, <1>2 DEF GoneInv, Clean
  <2> QED
    BY <1>1, <1>2, <2>1 DEF GoneInv
<1>7. KeptInv'
  <2> SUFFICES ASSUME 0 \notin hurt PROVE (FilesKnown /\ FilesShown /\ KeptSaved)'
    BY <1>1 DEF KeptInv
  <2>1. FilesKnown /\ FilesShown /\ KeptSaved
    BY <1>2 DEF KeptInv
  <2>2. FilesKnown'
    <3>1. Head(todo').do = "index"
      BY <1>3 DEF Write
    <3> QED
      BY <1>1, <1>2, <2>1, <3>1 DEF FilesKnown
  <2>3. FilesShown'
    BY <1>1, <2>1 DEF FilesShown
  <2>4. KeptSaved'
    BY <1>1, <1>2, <2>1 DEF KeptSaved, Saved, Listed
  <2> QED
    BY <2>2, <2>3, <2>4
<1> QED
  BY <1>4, <1>5, <1>6, <1>7 DEF IInv

LEMMA CrashStep ==
    ASSUME IInv, Crash
    PROVE  IInv'
<1>1. /\ mode # "down" /\ mode' = "down" /\ sessions' = <<>> /\ next_id' = 1
      /\ todo' = <<>> /\ opened' = FALSE /\ leaving' = {}
      /\ hurt' = hurt \cup (IF opened THEN {Head(todo).id} ELSE {})
                      \cup (IF Unlisted THEN {0} ELSE {})
      /\ atQuit' = <<>> /\ kept' = kept \ leaving
      /\ UNCHANGED <<index, file, runs, said, gone>>
      /\ Msgs' = Msgs /\ Shown' = {} /\ Count' = 0
  BY DEF Crash, Dead, diskVars, Msgs, Shown, Count
<1>2. /\ TypesInv /\ TypeOK /\ IdsInv /\ TodoInv /\ OwnInv /\ GoneInv /\ KeptInv
      /\ opened => todo # <<>>
      /\ gone \cup leaving \cup kept \subseteq Msgs
      /\ \A m \in Msgs : said[m] \in Ids /\ said[m] # 0 /\ m # Garbage
  BY Basics DEF IInv, TypesInv, TodoInv, Ids
<1>3. hurt \subseteq hurt' /\ hurt' \subseteq 0..MaxIds
  <2>1. hurt \subseteq 0..MaxIds /\ 0 \in 0..MaxIds
    BY <1>2, Bounds DEF TypeOK
  <2>2. opened => Head(todo).id \in 0..MaxIds
    BY <1>2, FirstWrite
  <2> QED
    BY <1>1, <2>1, <2>2
<1>4. TypesInv'
  <2>1. Len(sessions') <= MaxSessions /\ next_id' \in 1..(MaxIds + 1) /\ {} \in Chats
    BY <1>1, EmptySeq, Bounds DEF Chats
  <2>2. sessions' \in Seq(Session) /\ todo' \in Seq(Item) /\ atQuit' \in Seq(Session)
    BY <1>1, EmptySeq
  <2>3. kept' \in Chats
    BY <1>1, <1>2 DEF TypeOK, Chats
  <2>4. TypeOK'
    BY <1>1, <1>2, <1>3, <2>1, <2>2, <2>3 DEF TypeOK
  <2> QED
    BY <1>1, <1>2, <2>4 DEF TypesInv
<1>5. IdsInv' /\ TodoInv' /\ OwnInv'
  <2>1. IdsInv'
    BY <1>1, <1>2 DEF IdsInv, IdsOK, IdsOf
  <2>2. TodoInv' /\ OwnInv'
    BY <1>1, <1>2 DEF TodoInv, TodoOK, OwnInv
  <2> QED
    BY <2>1, <2>2
<1>6. GoneInv'
  <2>1. \A m \in gone' : said'[m] \in hurt' \/ Clean(m)'
    BY <1>1, <1>2, <1>3 DEF GoneInv, Clean
  <2> QED
    BY <1>1, <2>1 DEF GoneInv
<1>7. KeptInv'
  <2> SUFFICES ASSUME 0 \notin hurt' PROVE (FilesKnown /\ FilesShown /\ KeptSaved)'
    BY DEF KeptInv
  <2>1. 0 \notin hurt /\ ~Unlisted /\ (opened => Head(todo).id # 0)
        /\ FilesKnown /\ FilesShown /\ KeptSaved
    BY <1>1, <1>2 DEF KeptInv
  <2>2. index.state # "torn"
    BY <1>2, <2>1, FirstWrite DEF FilesKnown, Doing
  <2>3. \A s \in Ids : file[s].state = "whole" => Listed(s)
    <3>1. ToSet(index.ids) = {index.ids[i] : i \in 1..Len(index.ids)}
      BY <1>2, LenProperties DEF TypeOK, ToSet
    <3> QED
      BY <2>1, <3>1 DEF Unlisted, Listed
  <2>4. FilesKnown'
    BY <1>1, <2>2, <2>3 DEF FilesKnown, Listed
  <2>5. FilesShown'
    BY <1>1 DEF FilesShown
  <2>6. ASSUME NEW m \in kept, m \notin leaving, m \notin gone, said[m] \notin hurt'
        PROVE  Saved(m)'
    <3>1. Saved(m) /\ m \in Msgs
      BY <1>2, <1>3, <2>1, <2>6 DEF KeptSaved
    <3>2. ~(opened /\ Head(todo) = Write("file", said[m]))
      BY <1>1, <2>6 DEF Write
    <3> QED
      BY <1>1, <3>1, <3>2 DEF Saved, Listed
  <2>7. KeptSaved'
    BY <1>1, <2>6 DEF KeptSaved
  <2> QED
    BY <2>4, <2>5, <2>7
<1> QED
  BY <1>4, <1>5, <1>6, <1>7 DEF IInv
\* What persist_load makes of the files.
LEMMA LoadedIs ==
    ASSUME TypeOK, index.state = "whole"
    PROVE  /\ Loaded \in Seq(Session) /\ Len(Loaded) = Len(index.ids) /\ Len(Loaded) \in Nat
           /\ \A k \in 1..Len(Loaded) :
                /\ index.ids[k] \in Ids /\ Loaded[k].id = index.ids[k]
                /\ Loaded[k].chat = IF file[index.ids[k]].state = "whole"
                                    THEN file[index.ids[k]].chat ELSE {}
<1>1. index.ids \in Seq(Ids) /\ Len(index.ids) \in Nat
  BY LenProperties DEF TypeOK
<1>2. file \in [Ids -> [state : State, chat : Chats]]
  BY DEF TypeOK
<1> DEFINE item(k) == [id |-> index.ids[k],
                       chat |-> IF file[index.ids[k]].state = "whole"
                                THEN file[index.ids[k]].chat ELSE {}]
<1>3. ASSUME NEW k \in 1..Len(index.ids)
      PROVE  /\ index.ids[k] \in Ids /\ item(k) \in Session
             /\ item(k).id = index.ids[k]
             /\ item(k).chat = IF file[index.ids[k]].state = "whole"
                               THEN file[index.ids[k]].chat ELSE {}
  <2>1. index.ids[k] \in Ids
    BY <1>1
  <2>2. {} \in Chats /\ file[index.ids[k]].chat \in Chats
    BY <1>2, <2>1 DEF Chats
  <2> QED
    BY <2>1, <2>2 DEF Session
<1>4. Loaded = [k \in 1..Len(index.ids) |-> item(k)]
  BY DEF Loaded
<1> HIDE DEF item
<1> QED
  BY <1>1, <1>3, <1>4

LEMMA StartStep ==
    ASSUME IInv, Start
    PROVE  IInv'
<1>1. /\ mode = "down" /\ mode' = "up" /\ runs' \in 0..MaxRuns /\ atQuit' = <<>>
      /\ UNCHANGED <<todo, opened, index, file, said, leaving, gone, kept, hurt>>
      /\ Msgs' = Msgs
  <2>1. runs \in 0..MaxRuns /\ MaxRuns \in Nat
    BY BoundsAssumption DEF IInv, TypesInv, TypeOK
  <2>2. runs' = runs + 1 /\ runs < MaxRuns
    BY DEF Start
  <2>3. runs' \in 0..MaxRuns
    BY <2>1, <2>2
  <2> QED
    BY <2>3 DEF Start, diskVars, Msgs
<1>2. /\ TypesInv /\ TypeOK /\ IdsInv /\ TodoInv /\ OwnInv /\ GoneInv /\ KeptInv
      /\ todo = <<>> /\ ~opened /\ leaving = {}
      /\ gone \cup kept \subseteq Msgs
      /\ \A m \in Msgs : said[m] \in Ids /\ said[m] # 0 /\ m # Garbage
  BY <1>1, Basics DEF IInv, TypesInv, TodoInv, GoneInv, Ids
<1>3. /\ index.next_id \in 1..(MaxIds + 1) /\ index.ids \in Seq(Ids) /\ Len(index.ids) \in Nat
      /\ Len(index.ids) <= MaxSessions
      /\ file \in [Ids -> [state : State, chat : Chats]]
  BY <1>2, LenProperties DEF TypeOK, TypesInv
\* The sessions after the start: those of the index, or a new one.
<1>4. /\ sessions' \in Seq(Session) /\ Count' \in 1..MaxSessions
      /\ next_id' \in 1..(MaxIds + 1) /\ IdsOK(IdsOf(sessions'), next_id')
      /\ \A j \in 1..Count' :
           \/ sessions'[j].chat = {}
           \/ /\ sessions'[j].id \in Ids /\ file[sessions'[j].id].state = "whole"
              /\ sessions'[j].chat = file[sessions'[j].id].chat
      /\ index.state = "whole" =>
           \A i \in 1..Len(index.ids) :
             \E j \in 1..Count' : /\ sessions'[j].id = index.ids[i]
                                  /\ file[index.ids[i]].state = "whole" =>
                                       sessions'[j].chat = file[index.ids[i]].chat
  <2>1. CASE Loaded # <<>>
    <3>1. index.state = "whole" /\ sessions' = Loaded /\ next_id' = index.next_id
      BY <2>1 DEF Start, Loaded, RestoredId
    <3>2. /\ Loaded \in Seq(Session) /\ Len(Loaded) = Len(index.ids) /\ Len(Loaded) \in Nat
          /\ \A k \in 1..Len(Loaded) :
               /\ index.ids[k] \in Ids /\ Loaded[k].id = index.ids[k]
               /\ Loaded[k].chat = IF file[index.ids[k]].state = "whole"
                                   THEN file[index.ids[k]].chat ELSE {}
      BY <1>2, <3>1, LoadedIs
    <3>3. Len(Loaded) # 0
      BY <2>1, <3>2, EmptySeq
    <3>4. IdsOK(IdsOf(Loaded), index.next_id)
      <4>1. /\ \A i, j \in 1..Len(index.ids) : index.ids[i] = index.ids[j] => i = j
            /\ \A i \in 1..Len(index.ids) : index.ids[i] < index.next_id
        BY <1>2 DEF IdsInv, IdsOK
      <4> QED
        BY <3>2, <4>1, IdsOKIs
    <3>5. Count' = Len(Loaded) /\ Count' \in 1..MaxSessions
      BY <1>3, <3>1, <3>2, <3>3, Bounds DEF Count
    <3> QED
      BY <1>3, <3>1, <3>2, <3>4, <3>5
  <2>2. CASE Loaded = <<>>
    <3> DEFINE one == [id |-> RestoredId, chat |-> {}]
    <3>1. RestoredId \in Ids /\ sessions' = <<one>> /\ next_id' = RestoredId + 1
      BY <2>2 DEF Start
    <3>2. one \in Session /\ one.id = RestoredId /\ one.chat = {}
      BY <3>1 DEF Session, Chats
    <3> HIDE DEF one
    <3>3. sessions' \in Seq(Session) /\ Len(sessions') = 1 /\ sessions'[1] = one
      BY <3>1, <3>2
    <3>4. next_id' \in 1..(MaxIds + 1) /\ RestoredId < next_id' /\ Count' = 1
          /\ 1 \in 1..MaxSessions
      BY <3>1, <3>3, Bounds DEF Ids, Count
    <3>5. IdsOK(IdsOf(sessions'), next_id')
      BY <3>2, <3>3, <3>4, IdsOKIs
    <3>6. index.state = "whole" => Len(index.ids) = 0
      <4>1. index.state = "whole" => Len(Loaded) = Len(index.ids)
        BY <1>2, LoadedIs
      <4>2. Len(Loaded) = 0
        BY <2>2, EmptySeq
      <4> QED
        BY <4>1, <4>2
    <3> QED
      BY <3>2, <3>3, <3>4, <3>5, <3>6
  <2> QED
    BY <2>1, <2>2
<1>5. ASSUME NEW m \in Shown'
      PROVE  \E s \in Ids : file[s].state = "whole" /\ m \in file[s].chat
  <2>1. PICK j \in 1..Count' : m \in sessions'[j].chat
    BY DEF Shown
  <2> QED
    BY <1>4, <2>1
<1>6. TypesInv'
  <2>1. sessions' # <<>> /\ Len(sessions') <= MaxSessions
    <3>1. Len(sessions') \in 1..MaxSessions
      BY <1>4 DEF Count
    <3>2. sessions' = <<>> => Len(sessions') = 0
      BY EmptySeq
    <3> QED
      BY <3>1, <3>2, Bounds
  <2>2. atQuit' \in Seq(Session)
    BY <1>1, EmptySeq
  <2>3. TypeOK'
    BY <1>1, <1>2, <1>4, <2>1, <2>2 DEF TypeOK
  <2>4. (\A k \in 1..Count : sessions[k].chat \ {Garbage} \subseteq Msgs)'
    BY <1>1, <1>2, <1>4 DEF TypesInv
  <2> QED
    BY <1>1, <1>2, <2>3, <2>4 DEF TypesInv
<1>7. IdsInv' /\ TodoInv' /\ OwnInv'
  <2>1. IdsInv'
    BY <1>1, <1>2, <1>4 DEF IdsInv
  <2>2. TodoInv'
    BY <1>1, <1>2, EmptySeq DEF TodoInv, TodoOK
  <2>3. OwnInv'
    BY <1>1, <1>2, <1>4 DEF OwnInv
  <2> QED
    BY <2>1, <2>2, <2>3
<1>8. GoneInv'
  <2>1. ASSUME NEW m \in gone, m \in Shown'
        PROVE  said[m] \in hurt
    <3>1. PICK s \in Ids : file[s].state = "whole" /\ m \in file[s].chat
      BY <1>5, <2>1
    <3>2. said[m] = s
      BY <1>2, <3>1 DEF OwnInv
    <3> QED
      BY <1>2, <3>1, <3>2 DEF GoneInv, Clean
  <2>2. \A m \in gone' : said'[m] \in hurt' \/ Clean(m)'
    BY <1>1, <1>2 DEF GoneInv, Clean
  <2> QED
    BY <1>1, <1>2, <2>1, <2>2 DEF GoneInv
<1>9. KeptInv'
  <2> SUFFICES ASSUME 0 \notin hurt PROVE (FilesKnown /\ FilesShown /\ KeptSaved)'
    BY <1>1 DEF KeptInv
  <2>1. FilesKnown /\ FilesShown /\ KeptSaved
    BY <1>2 DEF KeptInv
  <2>2. ASSUME NEW s \in Ids, file[s].state = "whole"
        PROVE  HasId(sessions', s) /\ file[s].chat \subseteq Shown'
    <3>1. Listed(s) /\ index.state # "torn"
      BY <1>1, <1>2, <2>1, <2>2 DEF FilesKnown
    <3>2. index.state = "whole"
      BY <1>2, <3>1 DEF Listed, TypeOK, State
    <3>3. PICK i \in 1..Len(index.ids) : index.ids[i] = s
      BY <3>1 DEF Listed
    <3>4. PICK j \in 1..Count' : sessions'[j].id = s /\ sessions'[j].chat = file[s].chat
      BY <1>4, <2>2, <3>2, <3>3
    <3> QED
      BY <3>4 DEF HasId, Count, Shown
  <2>3. FilesKnown'
    BY <1>1, <1>2, <2>1, <2>2 DEF FilesKnown
  <2>4. FilesShown'
    BY <1>1, <2>2 DEF FilesShown
  <2>5. ASSUME NEW m \in kept, m \notin gone, said[m] \notin hurt
        PROVE  Saved(m)'
    <3>1. Saved(m) /\ said[m] \in Ids /\ file[said[m]].state = "whole"
      BY <1>2, <2>1, <2>5 DEF KeptSaved, Saved
    <3>2. m \in Shown'
      BY <2>2, <3>1 DEF Saved
    <3> QED
      BY <1>1, <3>1, <3>2 DEF Saved, Listed
  <2>6. KeptSaved'
    BY <1>1, <1>2, <2>5 DEF KeptSaved
  <2> QED
    BY <2>3, <2>4, <2>6
<1> QED
  BY <1>6, <1>7, <1>8, <1>9 DEF IInv

LEMMA StutterStep ==
    ASSUME IInv, UNCHANGED vars
    PROVE  IInv'
<1> USE DEF vars, memVars, diskVars
<1>1. TypesInv'
  <2>1. TypeOK'
    BY DEF IInv, TypesInv, TypeOK
  <2> QED
    BY <2>1 DEF IInv, TypesInv, Count, Msgs
<1>2. IdsInv' /\ TodoInv' /\ OwnInv'
  BY DEF IInv, IdsInv, TodoInv, OwnInv, Count, Doing
<1>3. GoneInv'
  BY DEF IInv, GoneInv, Clean, Shown, Count
<1>4. KeptInv'
  <2>1. FilesKnown => FilesKnown'
    BY DEF FilesKnown, Listed, Doing
  <2>2. FilesShown => FilesShown'
    BY DEF FilesShown, Shown, Count
  <2>3. KeptSaved => KeptSaved'
    BY DEF KeptSaved, Saved, Listed, Shown, Count
  <2> QED
    BY <2>1, <2>2, <2>3 DEF IInv, KeptInv
<1> QED
  BY <1>1, <1>2, <1>3, <1>4 DEF IInv

LEMMA NextInv ==
    ASSUME IInv, [Next]_vars
    PROVE  IInv'
<1>1. CASE Command /\ ~Quit
  BY <1>1, CommandIs, CommandedStep
<1>2. CASE Quit
  BY <1>2, QuitStep
<1>3. CASE Disk
  BY <1>3, OpenStep, WriteFailsIsGood, WriteIndexIsGood, WriteFileIsGood, RemoveFileIsGood,
     GoodWriteStep DEF Disk
<1>4. CASE Crash \/ Start
  BY <1>4, CrashStep, StartStep
<1>5. CASE UNCHANGED vars
  BY <1>5, StutterStep
<1> QED
  BY <1>1, <1>2, <1>3, <1>4, <1>5 DEF Next
-----------------------------------------------------------------------------
(* The theorems.                                                           *)

LEMMA StoreInvariant == Spec => []IInv
BY InitInv, NextInv, PTL DEF Spec

\* Sessions, ids, files, the writes to come and the messages stay what they
\* are declared to be: at most MaxSessions sessions, one at least while the
\* user types, and no write of anything else than the index or a session.
THEOREM StoreTypeCorrect == Spec => []TypeOK
<1>1. IInv => TypeOK
  BY DEF IInv, TypesInv
<1> QED
  BY <1>1, StoreInvariant, PTL

\* sm_new_session and persist_load: no two sessions ever share an id, and so
\* a file, and next_id is above them all, through deletions, crashes, lost
\* indexes and restarts.
THEOREM IdsStayDistinct == Spec => []IdsDistinct
<1>1. IInv => IdsDistinct
  <2> SUFFICES ASSUME IInv PROVE IdsDistinct
    OBVIOUS
  <2>1. IdsOK(IdsOf(sessions), next_id) /\ sessions \in Seq(Session)
    BY DEF IInv, IdsInv, TypesInv, TypeOK
  <2>2. IsInjective(IdsOf(sessions))
    BY <2>1, IdsOfProperties DEF IdsOK, IsInjective, IdsOf
  <2>3. \A k \in 1..Count : sessions[k].id < next_id
    BY <2>1, IdsOKIs DEF Count
  <2> QED
    BY <2>2, <2>3 DEF IdsDistinct
<1> QED
  BY <1>1, StoreInvariant, PTL

\* persist_save_session and persist_load: what a session shows was said in
\* the session of its id, whichever writes failed or were cut.
THEOREM MessagesOwned == Spec => []OwnMessages
<1>1. IInv => OwnMessages
  BY DEF IInv, OwnInv, OwnMessages
<1> QED
  BY <1>1, StoreInvariant, PTL

\* do_delete_session and /clear: what the user took away is never shown
\* again, after any number of crashes, unless a write of its own file failed.
THEOREM TakenAwayForGood == Spec => []GoneStaysGone
<1>1. IInv => GoneStaysGone
  BY DEF IInv, GoneInv, GoneStaysGone
<1> QED
  BY <1>1, StoreInvariant, PTL

\* persist_save_all and persist_load: a message that was in the files once is
\* shown as long as the program is up, and loaded by every start, unless the
\* user took it away or a write of its file, or of the index, failed.
THEOREM NothingLost == Spec => []Durable
<1>1. IInv => Durable
  <2> SUFFICES ASSUME IInv, 0 \notin hurt,
                      NEW m \in kept \ (gone \cup leaving), said[m] \notin hurt
      PROVE  m \in IF mode = "down" THEN Loadable(index, file) ELSE Shown
    BY DEF Durable
  <2>1. Saved(m) /\ FilesKnown /\ TypesInv /\ TypeOK
    BY DEF IInv, KeptInv, KeptSaved, TypesInv
  <2>2. CASE mode # "down"
    BY <2>1, <2>2 DEF Saved
  <2>3. CASE mode = "down"
    <3>1. ~opened /\ index.state # "torn" /\ index.state # "none"
      BY <2>1, <2>3 DEF TypesInv, FilesKnown, Saved, Listed
    <3>2. index.state = "whole" /\ index.ids \in Seq(Ids)
      BY <2>1, <3>1 DEF TypeOK, State
    <3>3. PICK i \in 1..Len(index.ids) : index.ids[i] = said[m]
      BY <2>1 DEF Saved, Listed
    <3>4. file[said[m]].state = "whole" /\ m \in file[said[m]].chat
      BY <2>1, <3>1 DEF Saved
    <3> QED
      BY <2>3, <3>2, <3>3, <3>4, LoadableIs
  <2> QED
    BY <2>2, <2>3
<1> QED
  BY <1>1, StoreInvariant, PTL
=============================================================================
