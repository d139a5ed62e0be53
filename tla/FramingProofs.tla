--------------------------- MODULE FramingProofs ---------------------------
(***************************************************************************)
(* Proofs about Framing, for any threads, frame lengths and buffer sizes.  *)
(* What has been read and what is on its way is one stream: a head, the    *)
(* part that was read last, and the pipe behind it.  The inductive         *)
(* invariant WireInv says of it, until something is torn:                  *)
(*   Lined     after each part comes the next of its frame, or the first   *)
(*             of another                                                  *)
(*   Ended     only the last frame may be incomplete, and what is missing  *)
(*             is what its sender has left, and no other has begun         *)
(*   Taken     what the receiver has of the head's frame, and still needs  *)
(*   Numbered  frames begin in their sender's order, none left out         *)
(***************************************************************************)
EXTENDS Framing, SequenceTheorems, TLAPS

-----------------------------------------------------------------------------
(* Sequences.                                                              *)

\* A sequence in two pieces.
LEMMA CutIs ==
    ASSUME NEW S, NEW q \in Seq(S), NEW n \in 0..Len(q)
    PROVE  /\ SubSeq(q, 1, n) \in Seq(S) /\ Len(SubSeq(q, 1, n)) = n
           /\ \A i \in 1..n : SubSeq(q, 1, n)[i] = q[i]
           /\ SubSeq(q, n + 1, Len(q)) \in Seq(S) /\ Len(SubSeq(q, n + 1, Len(q))) = Len(q) - n
           /\ \A i \in 1..(Len(q) - n) : SubSeq(q, n + 1, Len(q))[i] = q[n + i]
<1>1. Len(q) \in Nat /\ \A i \in 1..Len(q) : q[i] \in S
  BY LenProperties, ElementOfSeq
<1>2. /\ SubSeq(q, 1, n) \in Seq(S) /\ Len(SubSeq(q, 1, n)) = n
      /\ \A i \in 1..n : SubSeq(q, 1, n)[i] = q[i]
  <2>1. \A i \in 1..n : q[i] \in S
    BY <1>1
  <2>2. 1 \in Int /\ n \in Int
    BY <1>1
  <2>3. /\ SubSeq(q, 1, n) \in Seq(S) /\ Len(SubSeq(q, 1, n)) = IF 1 <= n THEN n - 1 + 1 ELSE 0
        /\ \A i \in 1..(n - 1 + 1) : SubSeq(q, 1, n)[i] = q[1 + i - 1]
    BY ONLY <2>1, <2>2, SubSeqProperties
  <2> QED
    BY <1>1, <2>3
<1>3. /\ SubSeq(q, n + 1, Len(q)) \in Seq(S) /\ Len(SubSeq(q, n + 1, Len(q))) = Len(q) - n
      /\ \A i \in 1..(Len(q) - n) : SubSeq(q, n + 1, Len(q))[i] = q[n + i]
  <2>1. \A i \in n + 1..Len(q) : q[i] \in S
    BY <1>1
  <2>2. n + 1 \in Int /\ Len(q) \in Int
    BY <1>1
  <2>3. /\ SubSeq(q, n + 1, Len(q)) \in Seq(S)
        /\ Len(SubSeq(q, n + 1, Len(q))) = IF n + 1 <= Len(q) THEN Len(q) - (n + 1) + 1 ELSE 0
        /\ \A i \in 1..(Len(q) - (n + 1) + 1) : SubSeq(q, n + 1, Len(q))[i] = q[n + 1 + i - 1]
    BY ONLY <2>1, <2>2, SubSeqProperties
  <2>4. ASSUME NEW i \in 1..(Len(q) - n)
        PROVE  SubSeq(q, n + 1, Len(q))[i] = q[n + i]
    <3>1. i \in 1..(Len(q) - (n + 1) + 1) /\ n + 1 + i - 1 = n + i
      BY <1>1
    <3> QED
      BY <2>3, <3>1
  <2>5. Len(SubSeq(q, n + 1, Len(q))) = Len(q) - n
    BY <1>1, <2>3
  <2> QED
    BY <2>3, <2>4, <2>5
<1> QED
  BY <1>2, <1>3

\* The parts of a frame.
LEMMA FramePartsIs ==
    ASSUME NEW s \in Senders, NEW k \in 1..MaxFrames, NEW n \in FrameLens
    PROVE  /\ FrameParts(s, k, n) \in Seq(Part) /\ Len(FrameParts(s, k, n)) = n
           /\ \A i \in 1..n : FrameParts(s, k, n)[i] = [s |-> s, k |-> k, i |-> i, n |-> n]
<1> DEFINE f == FrameParts(s, k, n)
<1>1. n \in Nat
  BY FramingAssumption
<1>2. f \in [1..n -> Part]
  BY <1>1 DEF FrameParts, Part
<1>3. f \in Seq(Part)
  BY <1>1, <1>2, SeqDef
<1>4. Len(f) = n
  <2>1. Len(f) \in Nat /\ DOMAIN f = 1..Len(f) /\ DOMAIN f = 1..n
    BY <1>2, <1>3, LenProperties
  <2>2. PICK l \in Nat : l = Len(f)
    BY <2>1
  <2>3. \A x \in Int : x \in 1..l <=> x \in 1..n
    BY <2>1, <2>2
  <2>4. l = n
    <3>1. l \in 1..l \/ l = 0
      BY <2>2
    <3>2. n \in 1..n \/ n = 0
      BY <1>1
    <3> QED
      BY <1>1, <2>2, <2>3, <3>1, <3>2
  <2> QED
    BY <2>2, <2>4
<1> QED
  BY <1>3, <1>4 DEF FrameParts

-----------------------------------------------------------------------------
(* The types, and what is left of a frame to be sent.                      *)

\* What a sender has yet to send is the end of its last frame.
Left ==
    \A s \in Senders : sending[s] # <<>> =>
        /\ Len(frames[s]) > 0 /\ Len(sending[s]) <= frames[s][Len(frames[s])]
        /\ \A j \in 1..Len(sending[s]) :
            sending[s][j] = [s |-> s, k |-> Len(frames[s]),
                             i |-> frames[s][Len(frames[s])] - Len(sending[s]) + j,
                             n |-> frames[s][Len(frames[s])]]

\* No thread has more frames under way than it may begin.
Few == \A s \in Senders : Len(frames[s]) <= MaxFrames

Types == WireTypeOK /\ Left /\ Few

LEMMA TypesStart == WireInit => Types
<1> SUFFICES ASSUME WireInit
    PROVE  Types
  OBVIOUS
<1>1. Capacity \in Nat /\ MaxFrames \in Nat
  BY FramingAssumption
<1>2. /\ sending \in [Senders -> Seq(Part)] /\ frames \in [Senders -> Seq(FrameLens)]
      /\ pipe \in Seq(Part) /\ Len(pipe) = 0 /\ rx.need \in Nat /\ rx.got \in Seq(Part)
      /\ received \in Seq(Seq(Part))
  BY EmptySeq DEF WireInit, NoRx
<1>3. WireTypeOK
  <2>1. blocks \in [send : BOOLEAN, recv : BOOLEAN]
    <3>1. /\ [send |-> TRUE, recv |-> FALSE] \in [send : BOOLEAN, recv : BOOLEAN]
          /\ [send |-> FALSE, recv |-> TRUE] \in [send : BOOLEAN, recv : BOOLEAN]
      OBVIOUS
    <3>2. blocks = [send |-> TRUE, recv |-> FALSE] \/ blocks = [send |-> FALSE, recv |-> TRUE]
      BY DEF WireInit
    <3> QED
      BY ONLY <3>1, <3>2
  <2>2. Len(pipe) <= Capacity
    BY <1>1, <1>2
  <2>3. {open, torn} \subseteq BOOLEAN
    BY DEF WireInit
  <2> QED
    BY <1>2, <2>1, <2>2, <2>3 DEF WireTypeOK
<1> QED
  BY <1>1, <1>3 DEF WireInit, Types, Left, Few

\* One sender's frames and the rest of its last change.
LEMMA TypesOne ==
    ASSUME Types, NEW s \in Senders, NEW f \in Seq(FrameLens), NEW r \in Seq(Part),
           frames' = [frames EXCEPT ![s] = f], sending' = [sending EXCEPT ![s] = r],
           Len(f) <= MaxFrames,
           r # <<>> =>
              /\ Len(f) > 0 /\ Len(r) <= f[Len(f)]
              /\ \A j \in 1..Len(r) :
                   r[j] = [s |-> s, k |-> Len(f), i |-> f[Len(f)] - Len(r) + j, n |-> f[Len(f)]],
           blocks' = blocks, rx' = rx, received' = received, open' = open, torn' \in BOOLEAN,
           pipe' \in Seq(Part), Len(pipe') <= Capacity
    PROVE  Types'
<1>1. /\ sending \in [Senders -> Seq(Part)] /\ frames \in [Senders -> Seq(FrameLens)]
  BY DEF Types, WireTypeOK
<1>2. /\ sending' \in [Senders -> Seq(Part)] /\ frames' \in [Senders -> Seq(FrameLens)]
  BY <1>1
<1>3. WireTypeOK'
  BY <1>2 DEF Types, WireTypeOK
<1>4. \A q \in Senders : /\ sending'[q] = IF q = s THEN r ELSE sending[q]
                         /\ frames'[q] = IF q = s THEN f ELSE frames[q]
  BY <1>1
<1>5. Few'
  BY <1>4 DEF Types, Few
<1>6. Left'
  <2> SUFFICES ASSUME NEW q \in Senders, sending'[q] # <<>>
      PROVE  /\ Len(frames'[q]) > 0 /\ Len(sending'[q]) <= frames'[q][Len(frames'[q])]
             /\ \A j \in 1..Len(sending'[q]) :
                  sending'[q][j] = [s |-> q, k |-> Len(frames'[q]),
                                    i |-> frames'[q][Len(frames'[q])] - Len(sending'[q]) + j,
                                    n |-> frames'[q][Len(frames'[q])]]
    BY DEF Left
  <2>1. CASE q = s
    <3>1. sending'[q] = r /\ frames'[q] = f
      BY <1>4, <2>1
    <3> QED
      BY <2>1, <3>1
  <2>2. CASE q # s
    <3>1. sending'[q] = sending[q] /\ frames'[q] = frames[q]
      BY <1>4, <2>2
    <3> QED
      BY <3>1 DEF Types, Left
  <2> QED
    BY <2>1, <2>2
<1> QED
  BY <1>3, <1>5, <1>6 DEF Types

LEMMA BeginTypes ==
    ASSUME Types, NEW s \in Senders, BeginSend(s)
    PROVE  Types'
<1>1. PICK n \in FrameLens :
        /\ frames' = [frames EXCEPT ![s] = Append(@, n)]
        /\ sending' = [sending EXCEPT ![s] = FrameParts(s, Len(frames[s]) + 1, n)]
  BY DEF BeginSend
<1>2. /\ frames[s] \in Seq(FrameLens) /\ Len(frames[s]) \in Nat /\ Len(frames[s]) < MaxFrames
      /\ frames \in [Senders -> Seq(FrameLens)] /\ sending \in [Senders -> Seq(Part)]
      /\ MaxFrames \in Nat /\ n \in Nat
  BY FramingAssumption DEF Types, WireTypeOK, BeginSend
<1> DEFINE k == Len(frames[s]) + 1
           f == Append(frames[s], n)
           r == FrameParts(s, k, n)
<1>3. k \in 1..MaxFrames
  BY <1>2
<1>4. /\ f \in Seq(FrameLens) /\ Len(f) = k /\ f[Len(f)] = n
  BY <1>2, AppendProperties
<1>5. /\ r \in Seq(Part) /\ Len(r) = n
      /\ \A i \in 1..n : r[i] = [s |-> s, k |-> k, i |-> i, n |-> n]
  <2> HIDE DEF k
  <2> QED
    BY <1>3, FramePartsIs
<1>6. /\ frames' = [frames EXCEPT ![s] = f] /\ sending' = [sending EXCEPT ![s] = r]
  BY <1>1, <1>2
<1>7. /\ blocks' = blocks /\ rx' = rx /\ received' = received /\ open' = open /\ torn' \in BOOLEAN
      /\ pipe' \in Seq(Part) /\ Len(pipe') <= Capacity
  BY DEF BeginSend, Types, WireTypeOK
<1> HIDE DEF k, f, r
<1>8. \A j \in 1..n : n - n + j = j
  BY <1>2
<1>9. /\ Len(f) <= MaxFrames /\ Len(f) > 0 /\ Len(r) <= f[Len(f)]
      /\ \A j \in 1..Len(r) :
           r[j] = [s |-> s, k |-> Len(f), i |-> f[Len(f)] - Len(r) + j, n |-> f[Len(f)]]
  BY <1>2, <1>3, <1>4, <1>5, <1>8
<1> QED
  BY ONLY Types, s \in Senders, <1>4, <1>5, <1>6, <1>7, <1>9, TypesOne

\* What SendSome sends, and what it leaves.
LEMMA SendIs ==
    ASSUME Types, NEW s \in Senders, SendSome(s)
    PROVE  \E n \in 1..Len(sending[s]) :
             /\ Len(pipe) + n <= Capacity
             /\ pipe' \in Seq(Part) /\ Len(pipe') = Len(pipe) + n
             /\ \A p \in 1..Len(pipe) : pipe'[p] = pipe[p]
             /\ \A j \in 1..n : pipe'[Len(pipe) + j] = sending[s][j]
             /\ sending' = [sending EXCEPT ![s] = SubSeq(@, n + 1, Len(@))]
             /\ SubSeq(sending[s], n + 1, Len(sending[s])) \in Seq(Part)
             /\ Len(SubSeq(sending[s], n + 1, Len(sending[s]))) = Len(sending[s]) - n
             /\ \A j \in 1..(Len(sending[s]) - n) :
                  SubSeq(sending[s], n + 1, Len(sending[s]))[j] = sending[s][n + j]
<1> DEFINE S == sending[s]
           room == Capacity - Len(pipe)
           n == IF room < Len(S) THEN room ELSE Len(S)
<1>1. /\ S \in Seq(Part) /\ Len(S) \in Nat /\ pipe \in Seq(Part) /\ Len(pipe) \in Nat
      /\ Len(pipe) <= Capacity /\ Capacity \in Nat
  BY FramingAssumption DEF Types, WireTypeOK
<1>2. /\ n > 0 /\ pipe' = pipe \o SubSeq(S, 1, n)
      /\ sending' = [sending EXCEPT ![s] = SubSeq(@, n + 1, Len(@))]
  BY DEF SendSome
<1> HIDE DEF S
<1>3. n \in 1..Len(S) /\ n \in 0..Len(S) /\ Len(pipe) + n <= Capacity
  BY <1>1, <1>2
<1> HIDE DEF n
<1>4. /\ SubSeq(S, 1, n) \in Seq(Part) /\ Len(SubSeq(S, 1, n)) = n
      /\ \A i \in 1..n : SubSeq(S, 1, n)[i] = S[i]
      /\ SubSeq(S, n + 1, Len(S)) \in Seq(Part) /\ Len(SubSeq(S, n + 1, Len(S))) = Len(S) - n
      /\ \A i \in 1..(Len(S) - n) : SubSeq(S, n + 1, Len(S))[i] = S[n + i]
  BY ONLY <1>1, <1>3, CutIs
<1> DEFINE c == SubSeq(S, 1, n)
<1>5. c \in Seq(Part) /\ Len(c) = n /\ (\A i \in 1..n : c[i] = S[i]) /\ pipe' = pipe \o c
  BY <1>2, <1>4
<1> HIDE DEF c
<1>6. /\ pipe' \in Seq(Part) /\ Len(pipe') = Len(pipe) + Len(c)
      /\ \A i \in 1..(Len(pipe) + Len(c)) :
           pipe'[i] = IF i <= Len(pipe) THEN pipe[i] ELSE c[i - Len(pipe)]
  BY ONLY <1>1, <1>5, ConcatProperties
<1>7. \A p \in 1..Len(pipe) : pipe'[p] = pipe[p]
  BY <1>1, <1>3, <1>5, <1>6
<1>8. \A j \in 1..n : pipe'[Len(pipe) + j] = S[j]
  <2> SUFFICES ASSUME NEW j \in 1..n
      PROVE  pipe'[Len(pipe) + j] = S[j]
    OBVIOUS
  <2>1. /\ Len(pipe) + j \in 1..(Len(pipe) + Len(c)) /\ ~(Len(pipe) + j <= Len(pipe))
        /\ Len(pipe) + j - Len(pipe) = j
    BY <1>1, <1>3, <1>5
  <2> QED
    BY <1>5, <1>6, <2>1
<1>9. Len(pipe') = Len(pipe) + n
  BY <1>5, <1>6
<1> QED
  BY <1>2, <1>3, <1>4, <1>6, <1>7, <1>8, <1>9 DEF S
LEMMA SendTypes ==
    ASSUME Types, NEW s \in Senders, SendSome(s)
    PROVE  Types'
<1> DEFINE S == sending[s]
           f == frames[s]
<1>1. PICK n \in 1..Len(sending[s]) :
        /\ Len(pipe) + n <= Capacity
        /\ pipe' \in Seq(Part) /\ Len(pipe') = Len(pipe) + n
        /\ sending' = [sending EXCEPT ![s] = SubSeq(@, n + 1, Len(@))]
        /\ SubSeq(sending[s], n + 1, Len(sending[s])) \in Seq(Part)
        /\ Len(SubSeq(sending[s], n + 1, Len(sending[s]))) = Len(sending[s]) - n
        /\ \A j \in 1..(Len(sending[s]) - n) :
             SubSeq(sending[s], n + 1, Len(sending[s]))[j] = sending[s][n + j]
  BY SendIs
<1> DEFINE r == SubSeq(sending[s], n + 1, Len(sending[s]))
<1>2. /\ sending \in [Senders -> Seq(Part)] /\ frames \in [Senders -> Seq(FrameLens)]
      /\ f \in Seq(FrameLens) /\ Len(f) \in Nat /\ Len(f) <= MaxFrames /\ S \in Seq(Part)
      /\ Len(S) \in Nat
  BY DEF Types, WireTypeOK, Few
<1>3. sending' = [sending EXCEPT ![s] = r]
  BY <1>1
<1>4. frames' = [frames EXCEPT ![s] = f]
  BY <1>2 DEF SendSome
<1>5. r \in Seq(Part) /\ Len(r) = Len(S) - n /\ \A j \in 1..(Len(S) - n) : r[j] = S[n + j]
  BY <1>1
<1>6. /\ Len(f) > 0 /\ Len(S) <= f[Len(f)]
      /\ \A j \in 1..Len(S) :
           S[j] = [s |-> s, k |-> Len(f), i |-> f[Len(f)] - Len(S) + j, n |-> f[Len(f)]]
  BY DEF SendSome, Types, Left
<1>7. f[Len(f)] \in Nat
  <2>1. Len(f) \in 1..Len(f)
    BY <1>2, <1>6
  <2>2. f[Len(f)] \in FrameLens
    BY ONLY <1>2, <2>1, ElementOfSeq
  <2> QED
    BY ONLY <2>2, FramingAssumption
<1>8. /\ blocks' = blocks /\ rx' = rx /\ received' = received /\ open' = open /\ torn' \in BOOLEAN
      /\ pipe' \in Seq(Part) /\ Len(pipe') <= Capacity
  BY <1>1 DEF SendSome, Types, WireTypeOK
<1>9. n \in 1..Len(S)
  OBVIOUS
<1> HIDE DEF r, S, f
<1>10. Len(r) <= f[Len(f)]
  BY <1>2, <1>5, <1>6, <1>7, <1>9
<1>11. ASSUME NEW j \in 1..Len(r)
       PROVE  r[j] = [s |-> s, k |-> Len(f), i |-> f[Len(f)] - Len(r) + j, n |-> f[Len(f)]]
  <2>1. n + j \in 1..Len(S) /\ f[Len(f)] - Len(S) + (n + j) = f[Len(f)] - Len(r) + j
    BY <1>2, <1>5, <1>7, <1>9
  <2>2. r[j] = S[n + j]
    BY <1>5
  <2> QED
    BY <1>6, <2>1, <2>2
<1> QED
  BY ONLY Types, s \in Senders, <1>2, <1>3, <1>4, <1>5, <1>6, <1>8, <1>10, <1>11, TypesOne

LEMMA GiveUpTypes ==
    ASSUME Types, NEW s \in Senders, SendGivesUp(s)
    PROVE  Types'
<1> DEFINE f == IF Begun(s) THEN frames[s] ELSE Front(frames[s])
<1>1. /\ sending \in [Senders -> Seq(Part)] /\ frames \in [Senders -> Seq(FrameLens)]
      /\ frames[s] \in Seq(FrameLens) /\ Len(frames[s]) \in Nat /\ Len(frames[s]) <= MaxFrames
      /\ Len(frames[s]) > 0
  BY DEF Types, WireTypeOK, Few, Left, SendGivesUp
<1>2. f \in Seq(FrameLens) /\ Len(f) <= MaxFrames
  <2>1. CASE Begun(s)
    BY <1>1, <2>1
  <2>2. CASE ~Begun(s)
    <3> DEFINE n == Len(frames[s]) - 1
    <3>1. n \in 0..Len(frames[s])
      BY <1>1
    <3> HIDE DEF n
    <3>2. SubSeq(frames[s], 1, n) \in Seq(FrameLens) /\ Len(SubSeq(frames[s], 1, n)) = n
      BY ONLY <1>1, <3>1, CutIs
    <3>3. f = SubSeq(frames[s], 1, n)
      BY <2>2 DEF Front, n
    <3>4. n <= MaxFrames
      BY <1>1, FramingAssumption DEF n
    <3> QED
      BY <3>2, <3>3, <3>4
  <2> QED
    BY <2>1, <2>2
<1>3. frames' = [frames EXCEPT ![s] = f] /\ sending' = [sending EXCEPT ![s] = <<>>]
  BY <1>1 DEF SendGivesUp
<1>4. /\ blocks' = blocks /\ rx' = rx /\ received' = received /\ open' = open /\ torn' \in BOOLEAN
      /\ pipe' \in Seq(Part) /\ Len(pipe') <= Capacity
  BY DEF SendGivesUp, Types, WireTypeOK
<1> DEFINE r == <<>>
<1>5. /\ r \in Seq(Part) /\ sending' = [sending EXCEPT ![s] = r]
      /\ (r # <<>> =>
              /\ Len(f) > 0 /\ Len(r) <= f[Len(f)]
              /\ \A j \in 1..Len(r) :
                   r[j] = [s |-> s, k |-> Len(f), i |-> f[Len(f)] - Len(r) + j, n |-> f[Len(f)]])
  BY <1>3
<1> HIDE DEF f, r
<1> QED
  BY ONLY Types, s \in Senders, <1>2, <1>3, <1>4, <1>5, TypesOne

LEMMA RecvTypes ==
    ASSUME Types, UNCHANGED <<blocks, sending, frames>>, pipe' \in Seq(Part),
           Len(pipe') <= Len(pipe), rx'.need \in Nat, rx'.got \in Seq(Part),
           received' \in Seq(Seq(Part)), open' \in BOOLEAN, torn' = torn
    PROVE  Types'
<1>1. Len(pipe') <= Capacity
  BY FramingAssumption DEF Types, WireTypeOK
<1> QED
  BY <1>1 DEF Types, WireTypeOK, Left, Few

LEMMA LengthTypes ==
    ASSUME Types, RecvLength
    PROVE  Types'
<1>1. pipe \in Seq(Part) /\ pipe # <<>> /\ Len(pipe) \in Nat /\ rx.got \in Seq(Part)
  BY DEF Types, WireTypeOK, RecvLength
<1>2. /\ Head(pipe) \in Part /\ pipe' \in Seq(Part) /\ Len(pipe') = Len(pipe) - 1
  BY <1>1, HeadTailProperties DEF RecvLength
<1>3. PICK n \in LengthIn(Head(pipe)) : rx' = [need |-> n, got |-> <<>>] /\ open' = (n > 0)
  BY DEF RecvLength
<1>4. n \in Nat
  <2>1. \A m \in FrameLens : m - 1 \in Nat
    BY FramingAssumption
  <2>2. Head(pipe).n \in FrameLens
    BY <1>2 DEF Part
  <2>3. n \in {m - 1 : m \in FrameLens} \cup {0}
    BY <1>3, <2>2 DEF LengthIn
  <2> QED
    BY <2>1, <2>3
<1>5. rx'.need \in Nat /\ rx'.got \in Seq(Part) /\ open' \in BOOLEAN /\ Len(pipe') <= Len(pipe)
  BY <1>1, <1>2, <1>3, <1>4
<1>6. /\ UNCHANGED <<blocks, sending, frames>> /\ torn' = torn /\ received' \in Seq(Seq(Part))
  BY DEF RecvLength, Types, WireTypeOK
<1> QED
  BY ONLY Types, <1>2, <1>5, <1>6, RecvTypes

\* What RecvBody takes.
LEMMA BodyIs ==
    ASSUME Types, RecvBody
    PROVE  \E n \in 1..Len(pipe), got \in Seq(Part) :
             /\ n = rx.need \/ (n < rx.need /\ n = Len(pipe))
             /\ Len(got) = Len(rx.got) + n
             /\ \A j \in 1..Len(rx.got) : got[j] = rx.got[j]
             /\ \A j \in 1..n : got[Len(rx.got) + j] = pipe[j]
             /\ pipe' \in Seq(Part) /\ Len(pipe') = Len(pipe) - n
             /\ \A p \in 1..(Len(pipe) - n) : pipe'[p] = pipe[n + p]
             /\ n = rx.need => rx' = NoRx /\ received' = Append(received, got)
             /\ n # rx.need => rx' = [need |-> rx.need - n, got |-> got] /\ received' = received
<1> DEFINE n == IF Len(pipe) < rx.need THEN Len(pipe) ELSE rx.need
           c == SubSeq(pipe, 1, n)
           got == rx.got \o c
<1>1. /\ pipe \in Seq(Part) /\ Len(pipe) \in Nat \ {0} /\ rx.got \in Seq(Part)
      /\ rx.need \in Nat /\ Len(rx.got) \in Nat /\ rx.need > 0
  BY EmptySeq DEF Types, WireTypeOK, RecvBody
<1>2. n \in 1..Len(pipe) /\ (n = rx.need \/ (n < rx.need /\ n = Len(pipe)))
  BY <1>1
<1>3. /\ pipe' = SubSeq(pipe, n + 1, Len(pipe))
      /\ n = rx.need => rx' = NoRx /\ received' = Append(received, got)
      /\ n # rx.need => rx' = [need |-> rx.need - n, got |-> got] /\ received' = received
  BY DEF RecvBody
<1> HIDE DEF n
<1>4. n \in 0..Len(pipe)
  BY <1>2
<1>5. /\ c \in Seq(Part) /\ Len(c) = n /\ \A i \in 1..n : c[i] = pipe[i]
  BY ONLY <1>1, <1>4, CutIs
<1>6. /\ pipe' \in Seq(Part) /\ Len(pipe') = Len(pipe) - n
      /\ \A p \in 1..(Len(pipe) - n) : pipe'[p] = pipe[n + p]
  <2>1. /\ SubSeq(pipe, n + 1, Len(pipe)) \in Seq(Part)
        /\ Len(SubSeq(pipe, n + 1, Len(pipe))) = Len(pipe) - n
        /\ \A i \in 1..(Len(pipe) - n) : SubSeq(pipe, n + 1, Len(pipe))[i] = pipe[n + i]
    BY ONLY <1>1, <1>4, CutIs
  <2> QED
    BY <1>3, <2>1
<1> HIDE DEF c
<1>7. /\ got \in Seq(Part) /\ Len(got) = Len(rx.got) + Len(c)
      /\ \A i \in 1..(Len(rx.got) + Len(c)) :
           got[i] = IF i <= Len(rx.got) THEN rx.got[i] ELSE c[i - Len(rx.got)]
  BY ONLY ZenonT(30), <1>1, <1>5, ConcatProperties
<1> HIDE DEF got
<1>8. \A j \in 1..Len(rx.got) : got[j] = rx.got[j]
  BY SMTT(30), <1>1, <1>2, <1>5, <1>7
<1>9. ASSUME NEW j \in 1..n
      PROVE  got[Len(rx.got) + j] = pipe[j]
  <2>1. /\ Len(rx.got) + j \in 1..(Len(rx.got) + Len(c)) /\ ~(Len(rx.got) + j <= Len(rx.got))
        /\ Len(rx.got) + j - Len(rx.got) = j
    BY <1>1, <1>2, <1>5
  <2> DEFINE m == Len(rx.got) + j
  <2>2. m \in 1..(Len(rx.got) + Len(c)) /\ ~(m <= Len(rx.got))
    BY <2>1
  <2> HIDE DEF m
  <2>3. got[m] = c[m - Len(rx.got)]
    BY ONLY <1>7, <2>2
  <2> QED
    BY <1>5, <2>1, <2>3 DEF m
<1>10. Len(got) = Len(rx.got) + n
  BY <1>5, <1>7
<1> QED
  BY <1>2, <1>3, <1>6, <1>7, <1>8, <1>9, <1>10

LEMMA BodyTypes ==
    ASSUME Types, RecvBody
    PROVE  Types'
<1>1. /\ rx.need \in Nat /\ pipe \in Seq(Part) /\ Len(pipe) \in Nat /\ received \in Seq(Seq(Part))
  BY DEF Types, WireTypeOK
<1>2. PICK n \in 1..Len(pipe), got \in Seq(Part) :
        /\ n = rx.need \/ (n < rx.need /\ n = Len(pipe))
        /\ pipe' \in Seq(Part) /\ Len(pipe') = Len(pipe) - n
        /\ n = rx.need => rx' = NoRx /\ received' = Append(received, got)
        /\ n # rx.need => rx' = [need |-> rx.need - n, got |-> got] /\ received' = received
  BY BodyIs
<1>3. /\ UNCHANGED <<blocks, sending, frames>> /\ torn' = torn /\ open' \in BOOLEAN
  BY DEF RecvBody, Types, WireTypeOK
<1>4. Len(pipe') <= Len(pipe)
  BY <1>1, <1>2
<1>5. Append(received, got) \in Seq(Seq(Part))
  BY <1>1, AppendProperties
<1>6. rx'.need \in Nat /\ rx'.got \in Seq(Part) /\ received' \in Seq(Seq(Part))
  <2>1. CASE n = rx.need
    <3>1. rx' = NoRx /\ received' = Append(received, got)
      BY <1>2, <2>1
    <3> QED
      BY <1>5, <3>1, EmptySeq DEF NoRx
  <2>2. CASE n # rx.need
    BY <1>1, <1>2, <2>2
  <2> QED
    BY <2>1, <2>2
<1> QED
  BY ONLY Types, <1>2, <1>3, <1>4, <1>6, RecvTypes

LEMMA TypesStep == Types /\ [WireNext]_wireVars => Types'
<1> SUFFICES ASSUME Types, [WireNext]_wireVars
    PROVE  Types'
  OBVIOUS
<1>1. CASE UNCHANGED wireVars
  BY <1>1 DEF wireVars, Types, WireTypeOK, Left, Few
<1>2. ASSUME NEW s \in Senders, BeginSend(s) PROVE Types'
  BY <1>2, BeginTypes
<1>3. ASSUME NEW s \in Senders, SendSome(s) PROVE Types'
  BY <1>3, SendTypes
<1>4. ASSUME NEW s \in Senders, SendGivesUp(s) PROVE Types'
  BY <1>4, GiveUpTypes
<1>5. CASE RecvLength
  BY <1>5, LengthTypes
<1>6. CASE RecvBody
  BY <1>6, BodyTypes
<1>7. CASE RecvFails
  <2>1. /\ UNCHANGED <<blocks, sending, frames, pipe, rx, received, torn>> /\ open' = FALSE
    BY <1>7 DEF RecvFails
  <2> QED
    BY <2>1 DEF Types, WireTypeOK, Left, Few
<1> QED
  BY <1>1, <1>2, <1>3, <1>4, <1>5, <1>6, <1>7 DEF WireNext
-----------------------------------------------------------------------------
(* The stream.  As long as nothing is torn there is a part that was read   *)
(* last, the head h, and h and the pipe are frames one after the other, of *)
(* which the last may go on at its sender.                                 *)

\* The j-th part of the frame of a, and the d-th after a.
Nth(a, j) == [s |-> a.s, k |-> a.k, i |-> j, n |-> a.n]
Later(a, d) == Nth(a, a.i + d)

\* A head that is not a part stands for the time before the first.
IsHead(h) == h.i \in Nat \ {0} /\ h.n \in Nat /\ (h.i = h.n \/ (h \in Part /\ h.i <= h.n))

At(h, q, p) == IF p = 0 THEN h ELSE q[p]

Lined(h, q) ==
    /\ \A p \in 1..Len(q) : q[p].i \in 1..q[p].n
    /\ \A p \in 0..Len(q) :
        /\ \A d \in 1..(Len(q) - p) :
            At(h, q, p).i + d <= At(h, q, p).n => q[p + d] = Later(At(h, q, p), d)
        /\ p < Len(q) /\ At(h, q, p).i = At(h, q, p).n => q[p + 1].i = 1

\* The rest of the last frame, if it is not complete, is the only one that is
\* being sent.
Going(x, s) == x[s] # <<>> /\ x[s][1].i > 1
Ended(h, q, x) ==
    LET last == At(h, q, Len(q))
    IN  \/ last.i = last.n /\ \A s \in Senders : ~Going(x, s)
        \/ /\ last.i # last.n
           /\ last.s \in Senders /\ x[last.s] # <<>> /\ x[last.s][1] = Later(last, 1)
           /\ \A s \in Senders \ {last.s} : ~Going(x, s)

\* What the receiver has of the frame of h.
Taken(h) ==
    /\ IsHead(h) /\ h.i + rx.need = h.n
    /\ Len(rx.got) = IF rx.need = 0 THEN 0 ELSE h.i - 1
    /\ \A j \in 1..Len(rx.got) : rx.got[j] = Nth(h, j + 1)

\* Frame k of s is among the messages m, or is, in part, in the stream up to
\* p; the head's is in the stream unless it has been read to its end.
Came(m, s, k) == \E j \in 1..Len(m) : m[j][1].s = s /\ m[j][1].k = k
Seen(m, busy, h, q, s, k, p) ==
    \/ Came(m, s, k)
    \/ \E j \in 0..p : (j > 0 \/ busy) /\ At(h, q, j).s = s /\ At(h, q, j).k = k

\* The frames of s that have been sent, the last perhaps in part.
Sent(s) == IF sending[s] = <<>> \/ Going(sending, s) THEN Len(frames[s]) ELSE Len(frames[s]) - 1

\* A frame begins in the stream after those before it of its sender.
Numbered(m, busy, h, q, sent) ==
    /\ \A p \in 1..Len(q) : q[p].i = 1 =>
        \A k \in Nat : Seen(m, busy, h, q, q[p].s, k, p - 1) <=> k \in 1..(q[p].k - 1)
    /\ busy => \A k \in Nat : Came(m, h.s, k) <=> k \in 1..(h.k - 1)
    /\ \A s \in Senders : \A k \in Nat :
        Seen(m, busy, h, q, s, k, Len(q)) <=> k \in 1..sent[s]

SentBy == [s \in Senders |-> Sent(s)]
Stream(h) ==
    /\ Taken(h) /\ Lined(h, pipe) /\ Ended(h, pipe, sending)
    /\ Numbered(received, rx.need > 0, h, pipe, SentBy)

WireInv == Types /\ FramesIntact /\ (~torn => \E h : Stream(h))

-----------------------------------------------------------------------------
(* The stream without what is read, or with what is sent.                  *)

LEMMA LinedCut ==
    ASSUME NEW h, IsHead(h), NEW q \in Seq(Part), Lined(h, q), NEW n \in 1..Len(q),
           NEW r \in Seq(Part), Len(r) = Len(q) - n, \A p \in 1..Len(r) : r[p] = q[n + p]
    PROVE  /\ IsHead(q[n]) /\ Lined(q[n], r)
           /\ \A p \in 0..Len(r) : At(q[n], r, p) = At(h, q, n + p)
<1>1. Len(q) \in Nat /\ Len(r) \in Nat
  BY LenProperties
<1>2. \A p \in 0..Len(r) : At(q[n], r, p) = At(h, q, n + p)
  BY <1>1 DEF At
<1>3. IsHead(q[n])
  <2>1. q[n] \in Part /\ q[n].i \in 1..q[n].n
    BY ElementOfSeq DEF Lined
  <2>2. q[n].n \in Nat
    BY <2>1, FramingAssumption DEF Part
  <2> QED
    BY <2>1, <2>2 DEF IsHead
<1>4. \A p \in 1..Len(r) : r[p].i \in 1..r[p].n
  <2> SUFFICES ASSUME NEW p \in 1..Len(r)
      PROVE  r[p].i \in 1..r[p].n
    OBVIOUS
  <2>1. n + p \in 1..Len(q)
    BY <1>1
  <2> QED
    BY <2>1 DEF Lined
<1>5. ASSUME NEW p \in 0..Len(r)
      PROVE  /\ \A d \in 1..(Len(r) - p) :
                  At(q[n], r, p).i + d <= At(q[n], r, p).n => r[p + d] = Later(At(q[n], r, p), d)
             /\ p < Len(r) /\ At(q[n], r, p).i = At(q[n], r, p).n => r[p + 1].i = 1
  <2> DEFINE a == At(h, q, n + p)
  <2>1. n + p \in 0..Len(q) /\ At(q[n], r, p) = a
    BY <1>1, <1>2
  <2>2. /\ \A d \in 1..(Len(q) - (n + p)) : a.i + d <= a.n => q[(n + p) + d] = Later(a, d)
        /\ n + p < Len(q) /\ a.i = a.n => q[(n + p) + 1].i = 1
    BY <2>1 DEF Lined
  <2> HIDE DEF a
  <2>3. ASSUME NEW d \in 1..(Len(r) - p)
        PROVE  d \in 1..(Len(q) - (n + p)) /\ r[p + d] = q[(n + p) + d]
    <3>1. p + d \in 1..Len(r) /\ n + (p + d) = (n + p) + d
      BY <1>1
    <3> QED
      BY <1>1, <3>1
  <2>4. p < Len(r) => n + p < Len(q) /\ r[p + 1] = q[(n + p) + 1]
    BY <1>1, <2>3
  <2> QED
    BY <2>1, <2>2, <2>3, <2>4
<1> QED
  BY <1>2, <1>3, <1>4, <1>5 DEF Lined

LEMMA LinedJoin ==
    ASSUME NEW h, IsHead(h), NEW q \in Seq(Part), Lined(h, q),
           NEW a, a.i \in Nat, a.n \in Nat, NEW n \in Nat \ {0}, a.i + n <= a.n,
           \/ a.i = 0 /\ At(h, q, Len(q)).i = At(h, q, Len(q)).n
           \/ a.i # 0 /\ At(h, q, Len(q)) = a,
           NEW r \in Seq(Part), Len(r) = Len(q) + n,
           \A p \in 1..Len(q) : r[p] = q[p],
           \A j \in 1..n : r[Len(q) + j] = Later(a, j)
    PROVE  Lined(h, r)
<1> DEFINE L == Len(q)
<1>1. L \in Nat /\ Len(r) = L + n
  BY LenProperties
<1>2. /\ \A p \in 0..L : At(h, r, p) = At(h, q, p)
      /\ \A p \in 1..L : At(h, r, p) = r[p]
      /\ \A j \in 1..n : At(h, r, L + j) = Later(a, j)
  BY <1>1 DEF At
<1>3. \A p \in 0..L : At(h, q, p).i \in Nat /\ At(h, q, p).n \in Nat
  <2> SUFFICES ASSUME NEW p \in 0..L
      PROVE  At(h, q, p).i \in Nat /\ At(h, q, p).n \in Nat
    OBVIOUS
  <2>1. CASE p = 0
    BY <2>1 DEF At, IsHead
  <2>2. CASE p # 0
    <3>1. p \in 1..Len(q)
      BY <1>1, <2>2
    <3>2. q[p] \in Part
      BY ONLY <3>1, ElementOfSeq, q \in Seq(Part)
    <3> QED
      BY <2>2, <3>2, FramingAssumption DEF At, Part
  <2> QED
    BY <2>1, <2>2
<1>4. \A p \in 1..Len(r) : r[p].i \in 1..r[p].n
  <2> SUFFICES ASSUME NEW p \in 1..Len(r)
      PROVE  r[p].i \in 1..r[p].n
    OBVIOUS
  <2>1. CASE p <= L
    BY SMTT(30), <1>1, <2>1 DEF Lined
  <2>2. CASE p > L
    <3>1. PICK j \in 1..n : p = L + j
      <4>1. p - L \in 1..n /\ p = L + (p - L)
        BY <1>1, <2>2
      <4> QED
        BY <4>1
    <3>2. r[p] = Later(a, j)
      BY <3>1
    <3> QED
      BY <3>2 DEF Later, Nth
  <2> QED
    BY <1>1, <2>1, <2>2
<1>5. ASSUME NEW p \in 0..Len(r), NEW d \in 1..(Len(r) - p), At(h, r, p).i + d <= At(h, r, p).n
      PROVE  r[p + d] = Later(At(h, r, p), d)
  <2>1. CASE p + d <= L
    <3>1. p \in 0..L /\ d \in 1..(L - p) /\ p + d \in 1..L
      BY <1>1, <2>1
    <3>2. At(h, r, p) = At(h, q, p) /\ r[p + d] = q[p + d]
      BY <1>2, <3>1
    <3> QED
      BY <1>5, <3>1, <3>2 DEF Lined
  <2>2. CASE p <= L /\ p + d > L
    <3> DEFINE A == At(h, q, p)
               e == L - p
               last == At(h, q, L)
    <3>1. /\ e \in Nat /\ d - e \in 1..n /\ p + d = L + (d - e) /\ A = At(h, r, p)
          /\ A.i \in Nat /\ A.n \in Nat /\ A.i + d <= A.n /\ e < d
      <4>1. p \in 0..L
        BY <1>1, <2>2
      <4>2. A = At(h, r, p) /\ A.i \in Nat /\ A.n \in Nat
        BY <1>2, <1>3, <4>1
      <4>3. d \in Nat /\ d <= L + n - p
        BY <1>1, <4>1
      <4>4. e \in Nat /\ p + d = L + (d - e)
        BY ONLY <1>1, <4>1, <4>3
      <4>5. d - e \in 1..n /\ e < d
        BY ONLY <1>1, <2>2, <4>1, <4>3, n \in Nat \ {0}
      <4> QED
        BY <1>5, <4>2, <4>4, <4>5
    <3>2. last.i = A.i + e /\ last.n = A.n /\ last.s = A.s /\ last.k = A.k
      <4>1. CASE e = 0
        <5>1. p = L
          BY <1>1, <4>1
        <5> QED
          BY <3>1, <4>1, <5>1
      <4>2. CASE e # 0
        <5>1. e \in 1..(L - p) /\ p \in 0..L /\ p + e = L /\ A.i + e <= A.n /\ L # 0
          BY SMTT(30), <1>1, <3>1, <4>2, <2>2
        <5>2. q[p + e] = Later(A, e)
          BY <5>1 DEF Lined
        <5>3. last = Later(A, e)
          BY <5>1, <5>2 DEF At
        <5> QED
          BY <5>3 DEF Later, Nth
      <4> QED
        BY <4>1, <4>2
    <3>3. last = a
      BY <3>1, <3>2
    <3>4. r[p + d] = Later(a, d - e)
      BY <3>1
    <3>5. a.i + (d - e) = A.i + d /\ a.s = A.s /\ a.k = A.k /\ a.n = A.n
      BY <3>1, <3>2, <3>3
    <3> QED
      BY <3>1, <3>4, <3>5 DEF Later, Nth
  <2>3. CASE p > L
    <3>1. PICK m \in 1..n : p = L + m
      <4>1. p - L \in 1..n /\ p = L + (p - L)
        BY <1>1, <2>3
      <4> QED
        BY <4>1
    <3>2. m + d \in 1..n /\ p + d = L + (m + d)
      BY <1>1, <3>1
    <3>3. r[p + d] = Later(a, m + d) /\ At(h, r, p) = Later(a, m)
      BY <1>2, <3>1, <3>2
    <3>4. a.i + (m + d) = (a.i + m) + d
      BY SMTT(30), <3>1
    <3> QED
      BY SMTT(30), <3>3, <3>4 DEF Later, Nth
  <2> QED
    BY <1>1, <2>1, <2>2, <2>3
<1>6. ASSUME NEW p \in 0..Len(r), p < Len(r), At(h, r, p).i = At(h, r, p).n
      PROVE  r[p + 1].i = 1
  <2>1. CASE p < L
    <3>1. p \in 0..L /\ p + 1 \in 1..L
      BY <1>1, <2>1
    <3> QED
      BY <1>2, <1>6, <2>1, <3>1 DEF Lined
  <2>2. CASE p = L
    <3>1. At(h, r, p) = At(h, q, L)
      BY <1>1, <1>2, <2>2
    <3>2. a.i = 0
      BY <1>6, <3>1
    <3>3. r[p + 1] = Later(a, 1)
      BY <2>2
    <3> QED
      BY <3>2, <3>3 DEF Later, Nth
  <2>3. CASE p > L
    <3>1. PICK m \in 1..n : p = L + m
      <4>1. p - L \in 1..n /\ p = L + (p - L)
        BY <1>1, <2>3
      <4> QED
        BY <4>1
    <3>2. At(h, r, p) = Later(a, m)
      BY <1>2, <3>1
    <3>3. a.i + m = a.n /\ m < n
      BY <1>1, <1>6, <3>1, <3>2 DEF Later, Nth
    <3> QED
      BY <3>3
  <2> QED
    BY <1>1, <2>1, <2>2, <2>3
<1> QED
  BY <1>4, <1>5, <1>6 DEF Lined
\* Some facts of a stream.
LEMMA StreamTypes ==
    ASSUME Types, NEW h, Stream(h)
    PROVE  /\ pipe \in Seq(Part) /\ Len(pipe) \in Nat /\ rx.need \in Nat
           /\ rx.got \in Seq(Part) /\ received \in Seq(Seq(Part)) /\ Len(received) \in Nat
           /\ IsHead(h) /\ h.i + rx.need = h.n
           /\ rx.need > 0 => h \in Part /\ h.i < h.n
           /\ \A p \in 1..Len(pipe) : pipe[p] \in Part /\ pipe[p].i \in 1..pipe[p].n
           /\ \A p \in 0..Len(pipe) :
                /\ At(h, pipe, p).i \in Nat \ {0} /\ At(h, pipe, p).n \in Nat
                /\ At(h, pipe, p).i # At(h, pipe, p).n => At(h, pipe, p) \in Part
<1>1. /\ pipe \in Seq(Part) /\ Len(pipe) \in Nat /\ rx.need \in Nat
      /\ rx.got \in Seq(Part) /\ received \in Seq(Seq(Part)) /\ Len(received) \in Nat
  BY DEF Types, WireTypeOK
<1>2. IsHead(h) /\ h.i + rx.need = h.n /\ Lined(h, pipe)
  BY DEF Stream, Taken
<1>3. rx.need > 0 => h \in Part /\ h.i < h.n
  BY <1>1, <1>2 DEF IsHead
<1>4. ASSUME NEW p \in 1..Len(pipe)
      PROVE  pipe[p] \in Part /\ pipe[p].i \in 1..pipe[p].n /\ pipe[p].n \in Nat
  <2>1. pipe[p] \in Part
    BY ONLY <1>1, <1>4, ElementOfSeq
  <2> QED
    BY <1>2, <2>1, FramingAssumption DEF Lined, Part
<1>5. ASSUME NEW p \in 0..Len(pipe)
      PROVE  /\ At(h, pipe, p).i \in Nat \ {0} /\ At(h, pipe, p).n \in Nat
             /\ At(h, pipe, p).i # At(h, pipe, p).n => At(h, pipe, p) \in Part
  <2>1. CASE p = 0
    BY <1>2, <2>1 DEF At, IsHead
  <2>2. CASE p # 0
    <3>1. p \in 1..Len(pipe) /\ At(h, pipe, p) = pipe[p]
      BY <1>1, <2>2 DEF At
    <3> QED
      BY <1>4, <3>1
  <2> QED
    BY <2>1, <2>2
<1> QED
  BY <1>1, <1>2, <1>3, <1>4, <1>5

\* Reading moves the stream on, and changes nothing of what it has held.
LEMMA CutNumbered ==
    ASSUME NEW m1, NEW b1, NEW h, NEW q \in Seq(Part), NEW sent, Numbered(m1, b1, h, q, sent),
           NEW m2, NEW b2 \in BOOLEAN, NEW g, NEW r \in Seq(Part), NEW n \in 1..Len(q),
           Len(r) = Len(q) - n, \A p \in 1..Len(r) : r[p] = q[n + p],
           \A s \in Senders, k \in Nat, p \in 0..Len(r) :
             Seen(m2, b2, g, r, s, k, p) <=> Seen(m1, b1, h, q, s, k, n + p),
           b2 => \A k \in Nat : Came(m2, g.s, k) <=> k \in 1..(g.k - 1)
    PROVE  Numbered(m2, b2, g, r, sent)
<1>1. Len(q) \in Nat /\ Len(r) \in Nat
  BY LenProperties
<1>2. ASSUME NEW p \in 1..Len(r), r[p].i = 1, NEW k \in Nat
      PROVE  Seen(m2, b2, g, r, r[p].s, k, p - 1) <=> k \in 1..(r[p].k - 1)
  <2>1. /\ n + p \in 1..Len(q) /\ r[p] = q[n + p] /\ p - 1 \in 0..Len(r)
        /\ n + (p - 1) = (n + p) - 1
    BY <1>1
  <2>2. q[n + p].s \in Senders
    <3>1. q[n + p] \in Part
      BY ONLY <2>1, ElementOfSeq, q \in Seq(Part)
    <3> QED
      BY <3>1 DEF Part
  <2>3. Seen(m1, b1, h, q, q[n + p].s, k, (n + p) - 1) <=> k \in 1..(q[n + p].k - 1)
    BY <1>2, <2>1 DEF Numbered
  <2>4. Seen(m2, b2, g, r, r[p].s, k, p - 1) <=> Seen(m1, b1, h, q, r[p].s, k, n + (p - 1))
    BY <2>1, <2>2
  <2> QED
    BY <2>1, <2>3, <2>4
<1>3. ASSUME NEW s \in Senders, NEW k \in Nat
      PROVE  Seen(m2, b2, g, r, s, k, Len(r)) <=> k \in 1..sent[s]
  <2>1. Len(r) \in 0..Len(r) /\ n + Len(r) = Len(q)
    BY <1>1
  <2>2. Seen(m2, b2, g, r, s, k, Len(r)) <=> Seen(m1, b1, h, q, s, k, n + Len(r))
    BY <2>1
  <2>3. Seen(m1, b1, h, q, s, k, Len(q)) <=> k \in 1..sent[s]
    BY DEF Numbered
  <2> QED
    BY <2>1, <2>2, <2>3
<1> QED
  BY <1>2, <1>3 DEF Numbered
-----------------------------------------------------------------------------
(* The steps.                                                              *)

\* A frame of which nothing has been sent comes or goes.
LEMMA SameStream ==
    ASSUME Types, NEW h, Stream(h), UNCHANGED <<pipe, rx, received>>,
           NEW s \in Senders, ~Going(sending, s), ~Going(sending', s),
           \A q \in Senders \ {s} : sending'[q] = sending[q] /\ frames'[q] = frames[q],
           Sent(s)' = Sent(s)
    PROVE  Stream(h)'
<1> DEFINE last == At(h, pipe, Len(pipe))
<1>1. /\ last.i \in Nat \ {0} /\ Ended(h, pipe, sending)
  <2>1. Len(pipe) \in 0..Len(pipe)
    BY StreamTypes
  <2> QED
    BY <2>1, StreamTypes DEF Stream
<1>2. \A q \in Senders : Going(sending', q) <=> Going(sending, q)
  BY DEF Going
<1>3. Ended(h, pipe, sending')
  <2>1. CASE last.i = last.n /\ \A q \in Senders : ~Going(sending, q)
    BY <1>2, <2>1 DEF Ended
  <2>2. CASE /\ last.i # last.n
             /\ last.s \in Senders /\ sending[last.s] # <<>> /\ sending[last.s][1] = Later(last, 1)
             /\ \A q \in Senders \ {last.s} : ~Going(sending, q)
    <3>1. sending[last.s][1].i = last.i + 1
      BY <2>2 DEF Later, Nth
    <3>2. Going(sending, last.s)
      BY <1>1, <2>2, <3>1 DEF Going
    <3>3. last.s # s
      BY <3>2
    <3> HIDE DEF last
    <3>4. sending'[last.s] = sending[last.s]
      BY <2>2, <3>3
    <3>5. /\ last.i # last.n /\ last.s \in Senders /\ sending'[last.s] # <<>>
          /\ sending'[last.s][1] = Later(last, 1)
          /\ \A q \in Senders \ {last.s} : ~Going(sending', q)
      BY <1>2, <2>2, <3>4
    <3> QED
      BY <3>5 DEF Ended, last
  <2> QED
    BY <1>1, <2>1, <2>2 DEF Ended
<1>4. SentBy' = SentBy
  <2>1. ASSUME NEW q \in Senders
        PROVE  Sent(q)' = Sent(q)
    <3>1. CASE q = s
      BY <3>1
    <3>2. CASE q # s
      BY <1>2, <3>2 DEF Sent
    <3> QED
      BY <3>1, <3>2
  <2> QED
    BY <2>1 DEF SentBy
<1>5. Taken(h)'
  BY DEF Stream, Taken
<1> QED
  BY <1>3, <1>4, <1>5 DEF Stream

LEMMA BeginStream ==
    ASSUME Types, NEW h, Stream(h), NEW s \in Senders, BeginSend(s)
    PROVE  Stream(h)'
<1>1. PICK n \in FrameLens :
        /\ frames' = [frames EXCEPT ![s] = Append(@, n)]
        /\ sending' = [sending EXCEPT ![s] = FrameParts(s, Len(frames[s]) + 1, n)]
  BY DEF BeginSend
<1>2. /\ frames[s] \in Seq(FrameLens) /\ Len(frames[s]) \in Nat /\ Len(frames[s]) < MaxFrames
      /\ frames \in [Senders -> Seq(FrameLens)] /\ sending \in [Senders -> Seq(Part)]
      /\ MaxFrames \in Nat /\ n \in Nat /\ n > 0 /\ sending[s] = <<>>
      /\ UNCHANGED <<pipe, rx, received>>
  BY FramingAssumption DEF Types, WireTypeOK, BeginSend
<1> DEFINE k == Len(frames[s]) + 1
           r == FrameParts(s, k, n)
<1>3. /\ r \in Seq(Part) /\ Len(r) = n
      /\ \A i \in 1..n : r[i] = [s |-> s, k |-> k, i |-> i, n |-> n]
  <2>1. k \in 1..MaxFrames
    BY <1>2
  <2> HIDE DEF k
  <2> QED
    BY <2>1, FramePartsIs
<1>4. sending'[s] = r /\ frames'[s] = Append(frames[s], n)
  BY <1>1, <1>2
<1>5. Len(frames'[s]) = k
  BY <1>2, <1>4, AppendProperties
<1> HIDE DEF r, k
<1>6. r # <<>> /\ r[1].i = 1
  <2>1. 1 \in 1..n
    BY <1>2
  <2>2. r[1] = [s |-> s, k |-> k, i |-> 1, n |-> n]
    BY ONLY <1>3, <2>1
  <2>3. r = <<>> => Len(r) = 0
    OBVIOUS
  <2>4. r # <<>>
    BY <1>2, <1>3, <2>3
  <2> QED
    BY <2>2, <2>4
<1>7. ~Going(sending, s) /\ ~Going(sending', s)
  BY <1>2, <1>4, <1>6 DEF Going
<1>8. Sent(s)' = Sent(s)
  <2>1. Sent(s) = Len(frames[s])
    BY <1>2 DEF Sent
  <2>2. Sent(s)' = k - 1
    BY <1>4, <1>5, <1>6, <1>7 DEF Sent
  <2> QED
    BY <1>2, <2>1, <2>2 DEF k
<1>9. \A q \in Senders \ {s} : sending'[q] = sending[q] /\ frames'[q] = frames[q]
  BY <1>1, <1>2
<1> QED
  BY ONLY Types, Stream(h), s \in Senders, <1>2, <1>7, <1>8, <1>9, SameStream

LEMMA GiveUpStream ==
    ASSUME Types, NEW h, Stream(h), NEW s \in Senders, SendGivesUp(s), ~torn'
    PROVE  Stream(h)'
<1>1. /\ ~Going(sending, s) /\ sending[s] # <<>> /\ UNCHANGED <<pipe, rx, received>>
      /\ frames' = [frames EXCEPT ![s] = Front(@)] /\ sending' = [sending EXCEPT ![s] = <<>>]
  BY DEF SendGivesUp, Begun, Going
<1>2. /\ sending \in [Senders -> Seq(Part)] /\ frames \in [Senders -> Seq(FrameLens)]
      /\ frames[s] \in Seq(FrameLens) /\ Len(frames[s]) \in Nat /\ Len(frames[s]) > 0
  BY <1>1 DEF Types, WireTypeOK, Left
<1>3. sending'[s] = <<>> /\ frames'[s] = Front(frames[s])
  BY <1>1, <1>2
<1>4. Len(Front(frames[s])) = Len(frames[s]) - 1
  <2> DEFINE n == Len(frames[s]) - 1
  <2>1. n \in 0..Len(frames[s])
    BY <1>2
  <2> HIDE DEF n
  <2>2. Len(SubSeq(frames[s], 1, n)) = n
    BY ONLY <1>2, <2>1, CutIs
  <2> QED
    BY <2>2 DEF Front, n
<1>5. ~Going(sending', s)
  BY <1>3 DEF Going
<1>6. Sent(s)' = Sent(s)
  BY <1>1, <1>3, <1>4 DEF Sent
<1>7. \A q \in Senders \ {s} : sending'[q] = sending[q] /\ frames'[q] = frames[q]
  BY <1>1, <1>2
<1> QED
  BY ONLY Types, Stream(h), s \in Senders, <1>1, <1>5, <1>6, <1>7, SameStream
\* Where the parts sent go on.
LEMMA SendStream ==
    ASSUME Types, NEW h, Stream(h), NEW s \in Senders, SendSome(s), ~torn'
    PROVE  Stream(h)'
<1> DEFINE S == sending[s]
           K == Len(frames[s])
           N == frames[s][K]
           L == Len(pipe)
           last == At(h, pipe, L)
           a == [s |-> s, k |-> K, i |-> N - Len(S), n |-> N]
<1>1. /\ sending \in [Senders -> Seq(Part)] /\ frames \in [Senders -> Seq(FrameLens)]
      /\ S \in Seq(Part) /\ Len(S) \in Nat /\ frames[s] \in Seq(FrameLens) /\ K \in Nat
      /\ S # <<>> /\ UNCHANGED <<frames, rx, received>>
      /\ \A q \in Senders \ {s} : ~Going(sending, q)
  <2>1. /\ sending \in [Senders -> Seq(Part)] /\ frames \in [Senders -> Seq(FrameLens)]
    BY DEF Types, WireTypeOK
  <2>2. /\ S \in Seq(Part) /\ Len(S) \in Nat /\ frames[s] \in Seq(FrameLens) /\ K \in Nat
    BY <2>1
  <2>3. /\ S # <<>> /\ UNCHANGED <<frames, rx, received>>
        /\ torn' = (torn \/ \E q \in Senders \ {s} : Begun(q))
    BY DEF SendSome
  <2>4. \A q \in Senders \ {s} : ~Begun(q)
    BY <2>3
  <2>5. \A q \in Senders \ {s} : ~Going(sending, q)
    BY <2>4 DEF Begun, Going
  <2> QED
    BY <2>1, <2>2, <2>3, <2>5
<1>2. /\ K > 0 /\ Len(S) <= N
      /\ \A j \in 1..Len(S) : S[j] = [s |-> s, k |-> K, i |-> N - Len(S) + j, n |-> N]
  BY <1>1 DEF Types, Left
<1>3. N \in Nat
  <2>1. K \in 1..Len(frames[s])
    BY <1>1, <1>2
  <2>2. N \in FrameLens
    BY ONLY <1>1, <2>1, ElementOfSeq
  <2> QED
    BY ONLY <2>2, FramingAssumption
<1>4. PICK n \in 1..Len(S) :
        /\ pipe' \in Seq(Part) /\ Len(pipe') = L + n
        /\ \A p \in 1..L : pipe'[p] = pipe[p]
        /\ \A j \in 1..n : pipe'[L + j] = S[j]
        /\ sending' = [sending EXCEPT ![s] = SubSeq(@, n + 1, Len(@))]
        /\ Len(SubSeq(S, n + 1, Len(S))) = Len(S) - n
        /\ \A j \in 1..(Len(S) - n) : SubSeq(S, n + 1, Len(S))[j] = S[n + j]
  BY SendIs
<1> DEFINE r == SubSeq(S, n + 1, Len(S))
<1>5. sending'[s] = r /\ \A q \in Senders \ {s} : sending'[q] = sending[q]
  BY <1>1, <1>4
<1>6. Len(r) = Len(S) - n /\ \A j \in 1..(Len(S) - n) : r[j] = S[n + j]
  BY <1>4
<1>7. /\ L \in Nat /\ pipe \in Seq(Part) /\ last.i \in Nat \ {0} /\ last.n \in Nat /\ IsHead(h)
      /\ last.i # last.n => last \in Part
  <2>1. L \in 0..L
    BY StreamTypes
  <2> QED
    BY <2>1, StreamTypes
<1>8. Lined(h, pipe) /\ Ended(h, pipe, sending) /\ Taken(h)
      /\ Numbered(received, rx.need > 0, h, pipe, SentBy)
  BY DEF Stream
<1>9. S[1] = Nth(a, a.i + 1) /\ a.i \in Nat /\ a.n = N /\ a.s = s /\ a.k = K
  <2>1. 1 \in 1..Len(S)
    BY <1>4
  <2> QED
    BY <1>1, <1>2, <1>3, <2>1 DEF Nth
<1>10. Going(sending, s) <=> a.i # 0
  BY <1>1, <1>9 DEF Going, Nth
<1>11. \/ a.i = 0 /\ last.i = last.n
       \/ a.i # 0 /\ last = a
  <2>1. CASE last.i = last.n /\ \A q \in Senders : ~Going(sending, q)
    BY <1>9, <1>10, <2>1
  <2>2. CASE /\ last.i # last.n
             /\ last.s \in Senders /\ sending[last.s] # <<>> /\ sending[last.s][1] = Later(last, 1)
             /\ \A q \in Senders \ {last.s} : ~Going(sending, q)
    <3>1. Going(sending, last.s)
      BY <1>7, <2>2 DEF Going, Later, Nth
    <3>2. last.s = s
      BY <1>1, <2>2, <3>1
    <3>3. Nth(a, a.i + 1) = Nth(last, last.i + 1)
      BY <1>9, <2>2, <3>2 DEF Later
    <3>4. last.k = K /\ last.n = N /\ last.i + 1 = a.i + 1
      BY <1>9, <3>3 DEF Nth
    <3>5. last \in Part
      BY <1>7, <2>2
    <3> HIDE DEF last
    <3>6. last = [s |-> last.s, k |-> last.k, i |-> last.i, n |-> last.n]
      BY <3>5 DEF Part
    <3>7. last.i = N - Len(S) /\ last.i # 0
      BY <1>7, <1>9, <3>4
    <3> QED
      BY <3>2, <3>4, <3>6, <3>7
  <2> QED
    BY <1>8, <2>1, <2>2 DEF Ended
<1>12. \A j \in 1..n : pipe'[L + j] = Later(a, j)
  BY SMTT(30), <1>2, <1>4 DEF Later, Nth
<1>13. n \in Nat \ {0} /\ a.i + n <= a.n /\ a.n \in Nat /\ (a.i + n = a.n <=> n = Len(S))
  BY SMTT(30), <1>1, <1>2, <1>3, <1>4
<1> HIDE DEF r, a
<1>14. Lined(h, pipe')
  <2>1. Len(pipe') = Len(pipe) + n /\ pipe' \in Seq(Part)
    BY <1>4
  <2>2. /\ \A p \in 1..Len(pipe) : pipe'[p] = pipe[p]
        /\ \A j \in 1..n : pipe'[Len(pipe) + j] = Later(a, j)
    BY <1>4, <1>12
  <2>3. \/ a.i = 0 /\ At(h, pipe, Len(pipe)).i = At(h, pipe, Len(pipe)).n
        \/ a.i # 0 /\ At(h, pipe, Len(pipe)) = a
    BY <1>11
  <2> QED
    BY ONLY ZenonT(30), <1>7, <1>8, <1>9, <1>13, <2>1, <2>2, <2>3, LinedJoin
<1>15. At(h, pipe', Len(pipe')) = Later(a, n)
  <2>1. L + n # 0 /\ n \in 1..n
    BY <1>7, <1>13
  <2> QED
    BY <1>4, <1>12, <2>1 DEF At
<1>16. Ended(h, pipe', sending')
  <2>1. \A q \in Senders \ {s} : ~Going(sending', q)
    BY <1>1, <1>5 DEF Going
  <2>2. CASE n = Len(S)
    <3>1. Len(r) = 0 /\ r \in Seq(Part)
      <4>1. n \in 0..Len(S)
        BY <1>1, <1>13, <2>2
      <4>2. r \in Seq(Part)
        BY ONLY <1>1, <4>1, CutIs DEF r
      <4> QED
        BY <1>1, <1>6, <2>2, <4>2
    <3>2. r = <<>>
      BY ONLY <3>1, EmptySeq
    <3>3. ~Going(sending', s)
      BY <1>5, <3>2 DEF Going
    <3>4. Later(a, n).i = Later(a, n).n
      BY <1>13, <2>2 DEF Later, Nth
    <3> QED
      BY <1>15, <2>1, <3>3, <3>4 DEF Ended
  <2>3. CASE n # Len(S)
    <3>1. 1 \in 1..(Len(S) - n) /\ n + 1 \in 1..Len(S)
      BY <1>1, <1>4, <2>3
    <3>2. r[1] = S[n + 1]
      BY <1>6, <3>1
    <3>3. S[n + 1] = Nth(a, a.i + (n + 1))
      BY <1>2, <3>1 DEF Nth, a
    <3>4. r # <<>>
      <4>1. r = <<>> => Len(r) = 0
        OBVIOUS
      <4> QED
        BY <1>1, <1>4, <1>6, <2>3, <4>1
    <3>5. r[1] = Later(Later(a, n), 1)
      <4>1. a.i + (n + 1) = (a.i + n) + 1
        <5>1. a.i \in Nat /\ n \in Nat
          BY <1>9, <1>13
        <5> QED
          BY ONLY <5>1
      <4>2. Later(Later(a, n), 1) = Nth(a, (a.i + n) + 1)
        BY DEF Later, Nth
      <4> QED
        BY <3>2, <3>3, <4>1, <4>2
    <3>6. Later(a, n).i # Later(a, n).n /\ Later(a, n).s = s
      BY <1>9, <1>13, <2>3 DEF Later, Nth
    <3> QED
      BY <1>5, <1>15, <2>1, <3>4, <3>5, <3>6 DEF Ended
  <2> QED
    BY <2>2, <2>3
<1>17. Taken(h)'
  BY <1>1, <1>8 DEF Taken
<1>18. /\ \A p \in 0..L : At(h, pipe', p) = At(h, pipe, p)
       /\ \A j \in 1..n : At(h, pipe', L + j).s = s /\ At(h, pipe', L + j).k = K
  <2>1. \A p \in 0..L : At(h, pipe', p) = At(h, pipe, p)
    BY <1>4, <1>7 DEF At
  <2>2. ASSUME NEW j \in 1..n
        PROVE  At(h, pipe', L + j) = Later(a, j)
    BY <1>7, <1>12 DEF At
  <2>3. \A j \in 1..n : Later(a, j).s = s /\ Later(a, j).k = K
    BY <1>9 DEF Later, Nth
  <2> QED
    BY <2>1, <2>2, <2>3
<1>19. Numbered(received, rx.need > 0, h, pipe', SentBy')
  <2> DEFINE m == received
             b == rx.need > 0
  <2>1. ASSUME NEW q, NEW k, NEW p \in 0..L
        PROVE  Seen(m, b, h, pipe', q, k, p) <=> Seen(m, b, h, pipe, q, k, p)
    <3>1. \A j \in 0..p : At(h, pipe', j) = At(h, pipe, j)
      BY <1>7, <1>18
    <3> HIDE DEF m, b
    <3> QED
      BY <3>1 DEF Seen
  <2>2. ASSUME NEW q, NEW k
        PROVE  Seen(m, b, h, pipe', q, k, L + n) <=>
                 Seen(m, b, h, pipe, q, k, L) \/ (q = s /\ k = K)
    <3> HIDE DEF m, b, last, L
    <3>1. ASSUME q = s, k = K
          PROVE  Seen(m, b, h, pipe', q, k, L + n)
      <4>1. L + 1 \in 0..(L + n) /\ L + 1 > 0 /\ 1 \in 1..n
        BY <1>7, <1>13
      <4> QED
        BY <1>18, <3>1, <4>1 DEF Seen
    <3>2. ASSUME NEW j \in 0..L, j > 0 \/ b, At(h, pipe, j).s = q, At(h, pipe, j).k = k
          PROVE  Seen(m, b, h, pipe', q, k, L + n)
      <4>1. j \in 0..(L + n)
        BY <1>7, <1>13
      <4> QED
        BY <1>18, <3>2, <4>1 DEF Seen
    <3>3. ASSUME NEW j \in 0..(L + n), j > 0 \/ b, At(h, pipe', j).s = q, At(h, pipe', j).k = k
          PROVE  Seen(m, b, h, pipe, q, k, L) \/ (q = s /\ k = K)
      <4>1. CASE j <= L
        <5>1. j \in 0..L
          BY <1>7, <4>1
        <5> QED
          BY <1>18, <3>3, <5>1 DEF Seen
      <4>2. CASE j > L
        <5>1. j - L \in 1..n /\ j = L + (j - L)
          BY <1>7, <1>13, <4>2
        <5> QED
          BY <1>18, <3>3, <5>1
      <4> QED
        BY <1>7, <4>1, <4>2
    <3>4. Came(m, q, k) => Seen(m, b, h, pipe', q, k, L + n) /\ Seen(m, b, h, pipe, q, k, L)
      BY DEF Seen
    <3> QED
      BY <3>1, <3>2, <3>3, <3>4 DEF Seen
  <2>3. \A q \in Senders, k \in Nat : Seen(m, b, h, pipe, q, k, L) <=> k \in 1..Sent(q)
    BY <1>8 DEF Numbered, SentBy
  <2>4. /\ Sent(s) = IF a.i = 0 THEN K - 1 ELSE K
        /\ Sent(s)' = K
        /\ \A q \in Senders \ {s} : Sent(q)' = Sent(q)
    <3>1. Sent(s) = IF a.i = 0 THEN K - 1 ELSE K
      BY <1>1, <1>10 DEF Sent
    <3>2. Sent(s)' = K
      <4>1. CASE sending'[s] = <<>>
        BY <1>1, <4>1 DEF Sent
      <4>2. CASE sending'[s] # <<>>
        <5>1. n # Len(S)
          <6>1. SUFFICES ASSUME n = Len(S)
                PROVE  FALSE
            OBVIOUS
          <6>2. n \in 0..Len(S)
            BY <1>1, <1>13, <6>1
          <6>3. r \in Seq(Part)
            BY ONLY <1>1, <6>2, CutIs DEF r
          <6>4. Len(r) = 0
            BY <1>1, <1>6, <6>1
          <6> QED
            BY <1>5, <4>2, <6>3, <6>4, EmptySeq
        <5>2. 1 \in 1..(Len(S) - n) /\ n + 1 \in 1..Len(S)
          BY <1>1, <1>4, <5>1
        <5>3. r[1].i = N - Len(S) + (n + 1)
          <6>1. r[1] = S[n + 1]
            BY <1>6, <5>2
          <6>2. S[n + 1] = [s |-> s, k |-> K, i |-> N - Len(S) + (n + 1), n |-> N]
            BY <1>2, <5>2
          <6> QED
            BY <6>1, <6>2
        <5>4. r[1].i > 1
          BY <1>1, <1>2, <1>3, <1>13, <5>3
        <5>5. Going(sending', s)
          BY <1>5, <4>2, <5>4 DEF Going
        <5> QED
          BY <1>1, <5>5 DEF Sent
      <4> QED
        BY <4>1, <4>2
    <3>3. \A q \in Senders \ {s} : Sent(q)' = Sent(q)
      BY <1>1, <1>5 DEF Sent, Going
    <3> QED
      BY <3>1, <3>2, <3>3
  <2>5. \A q \in Senders, k \in Nat : Seen(m, b, h, pipe', q, k, L + n) <=> k \in 1..Sent(q)'
    <3> SUFFICES ASSUME NEW q \in Senders, NEW k \in Nat
        PROVE  Seen(m, b, h, pipe', q, k, L + n) <=> k \in 1..Sent(q)'
      OBVIOUS
    <3>1. /\ Seen(m, b, h, pipe', q, k, L + n) <=> (k \in 1..Sent(q) \/ (q = s /\ k = K))
      BY <2>2, <2>3
    <3>2. CASE q = s
      BY <1>1, <1>2, <2>4, <3>1, <3>2
    <3>3. CASE q # s
      BY <2>4, <3>1, <3>3
    <3> QED
      BY <3>2, <3>3
  <2>6. ASSUME NEW p \in 1..Len(pipe'), pipe'[p].i = 1, NEW k \in Nat
        PROVE  Seen(m, b, h, pipe', pipe'[p].s, k, p - 1) <=> k \in 1..(pipe'[p].k - 1)
    <3>1. CASE p <= L
      <4>1. p \in 1..L /\ p - 1 \in 0..L /\ pipe'[p] = pipe[p]
        BY <1>4, <1>7, <3>1
      <4>2. Seen(m, b, h, pipe, pipe[p].s, k, p - 1) <=> k \in 1..(pipe[p].k - 1)
        BY <1>8, <2>6, <4>1 DEF Numbered
      <4> QED
        BY <2>1, <4>1, <4>2
    <3>2. CASE p > L
      <4>1. PICK j \in 1..n : p = L + j
        <5>1. p - L \in 1..n /\ p = L + (p - L)
          BY <1>4, <1>7, <1>13, <3>2
        <5> QED
          BY <5>1
      <4>2. pipe'[p] = Later(a, j)
        BY <1>12, <4>1
      <4>3. a.i = 0 /\ j = 1 /\ pipe'[p].s = s /\ pipe'[p].k = K
        BY <1>9, <2>6, <4>1, <4>2 DEF Later, Nth
      <4>4. p - 1 = L /\ L \in 0..L
        BY <1>7, <4>1, <4>3
      <4>5. Seen(m, b, h, pipe, s, k, L) <=> k \in 1..(K - 1)
        BY <2>3, <2>4, <4>3
      <4> QED
        BY <2>1, <4>3, <4>4, <4>5
    <3> QED
      BY <1>7, <3>1, <3>2
  <2>7. b => \A k \in Nat : Came(m, h.s, k) <=> k \in 1..(h.k - 1)
    BY <1>8 DEF Numbered
  <2>8. \A q \in Senders : SentBy'[q] = Sent(q)'
    BY DEF SentBy
  <2> HIDE DEF m, b, L
  <2>9. Len(pipe') = L + n
    BY <1>4
  <2>10. Numbered(m, b, h, pipe', SentBy')
    BY ONLY <2>5, <2>6, <2>7, <2>8, <2>9 DEF Numbered
  <2> QED
    BY <2>10 DEF m, b
<1> QED
  BY <1>1, <1>14, <1>16, <1>17, <1>19 DEF Stream
\* A length is read where a frame begins.
LEMMA LengthStream ==
    ASSUME Types, NEW h, Stream(h), RecvLength
    PROVE  (\E g : Stream(g)') /\ open'
<1>1. /\ pipe \in Seq(Part) /\ Len(pipe) \in Nat /\ IsHead(h) /\ h.i + rx.need = h.n
      /\ \A p \in 1..Len(pipe) : pipe[p] \in Part /\ pipe[p].i \in 1..pipe[p].n
  BY StreamTypes
<1>2. /\ rx.need = 0 /\ pipe # <<>> /\ pipe' = Tail(pipe)
      /\ \E n \in LengthIn(Head(pipe)) : rx' = [need |-> n, got |-> <<>>] /\ open' = (n > 0)
      /\ UNCHANGED <<sending, frames, received>>
  BY DEF RecvLength
<1>3. PICK g : g = pipe[1]
  OBVIOUS
<1>4. 1 \in 1..Len(pipe) /\ Head(pipe) = g
  <2>1. Len(pipe) # 0
    BY <1>1, <1>2, EmptySeq
  <2> QED
    BY <1>1, <1>2, <1>3, <2>1
<1>5. Lined(h, pipe) /\ Ended(h, pipe, sending) /\ Numbered(received, rx.need > 0, h, pipe, SentBy)
  BY DEF Stream
<1>6. g \in Part /\ g.i = 1 /\ g.n \in FrameLens
  <2>1. h.i = h.n
    BY <1>1, <1>2 DEF IsHead
  <2>2. 0 \in 0..Len(pipe) /\ At(h, pipe, 0) = h /\ 0 < Len(pipe)
    BY <1>1, <1>4 DEF At
  <2>3. pipe[0 + 1].i = 1
    BY ONLY <1>5, <2>1, <2>2 DEF Lined
  <2> QED
    BY <1>1, <1>3, <1>4, <2>3 DEF Part
<1>7. g.n \in Nat /\ g.n > 1
  <2>1. \A x \in FrameLens : x \in Nat /\ x > 1
    BY FramingAssumption
  <2> QED
    BY <1>6, <2>1
<1>8. rx' = [need |-> g.n - 1, got |-> <<>>] /\ open' = (g.n - 1 > 0)
  BY <1>2, <1>4, <1>6 DEF LengthIn
<1> DEFINE r == Tail(pipe)
<1>9. /\ r \in Seq(Part) /\ Len(r) = Len(pipe) - 1 /\ \A p \in 1..Len(r) : r[p] = pipe[1 + p]
  BY <1>1, <1>2, HeadTailProperties
<1> HIDE DEF r
<1>10. /\ IsHead(g) /\ Lined(g, r)
       /\ \A p \in 0..Len(r) : At(g, r, p) = At(h, pipe, 1 + p)
  BY ONLY SMTT(30), <1>1, <1>3, <1>4, <1>5, <1>9, LinedCut
<1>11. Ended(g, r, sending')
  <2>1. At(g, r, Len(r)) = At(h, pipe, Len(pipe))
    <3>1. Len(r) \in 0..Len(r) /\ 1 + Len(r) = Len(pipe)
      BY <1>1, <1>4, <1>9
    <3> QED
      BY <1>10, <3>1
  <2> QED
    BY <1>2, <1>5, <2>1 DEF Ended
<1>12. Taken(g)'
  <2>1. rx'.need = g.n - 1 /\ rx'.got = <<>> /\ Len(rx'.got) = 0
    BY <1>8
  <2> QED
    BY <1>6, <1>7, <1>10, <2>1 DEF Taken
<1>13. Numbered(received, TRUE, g, r, SentBy)
  <2> DEFINE m == received
             sent == SentBy
  <2>1. Numbered(m, FALSE, h, pipe, sent)
    <3>1. (rx.need > 0) = FALSE
      BY <1>2
    <3> QED
      BY <1>5, <3>1
  <2> HIDE DEF m, sent
  <2>2. ASSUME NEW s \in Senders, NEW k \in Nat, NEW p \in 0..Len(r)
        PROVE  Seen(m, TRUE, g, r, s, k, p) <=> Seen(m, FALSE, h, pipe, s, k, 1 + p)
    <3>1. ASSUME NEW j \in 0..p
          PROVE  1 + j \in 0..(1 + p) /\ 1 + j > 0 /\ At(g, r, j) = At(h, pipe, 1 + j)
      BY <1>9, <1>1, <1>10
    <3>2. ASSUME NEW j \in 0..(1 + p), j > 0
          PROVE  j - 1 \in 0..p /\ At(g, r, j - 1) = At(h, pipe, j)
      <4>1. j - 1 \in 0..p /\ 1 + (j - 1) = j
        BY <3>2
      <4> QED
        BY <3>1, <4>1
    <3> QED
      BY <3>1, <3>2 DEF Seen
  <2>3. \A k \in Nat : Came(m, g.s, k) <=> k \in 1..(g.k - 1)
    <3> SUFFICES ASSUME NEW k \in Nat
        PROVE  Came(m, g.s, k) <=> k \in 1..(g.k - 1)
      OBVIOUS
    <3>1. Seen(m, FALSE, h, pipe, g.s, k, 1 - 1) <=> k \in 1..(g.k - 1)
      BY <1>3, <1>4, <1>6, <2>1 DEF Numbered
    <3>2. Seen(m, FALSE, h, pipe, g.s, k, 1 - 1) <=> Came(m, g.s, k)
      BY DEF Seen
    <3> QED
      BY <3>1, <3>2
  <2>4. Numbered(m, TRUE, g, r, sent)
    BY ONLY <1>1, <1>4, <1>9, <2>1, <2>2, <2>3, CutNumbered
  <2> QED
    BY <2>4 DEF m, sent
<1>14. Stream(g)'
  <2>1. (rx'.need > 0) = TRUE
    BY <1>7, <1>8
  <2>2. SentBy' = SentBy
    BY <1>2 DEF SentBy, Sent, Going
  <2>3. Numbered(received', rx'.need > 0, g, pipe', SentBy')
    BY <1>2, <1>13, <2>1, <2>2 DEF r
  <2> QED
    BY <1>2, <1>10, <1>11, <1>12, <2>3 DEF Stream, r
<1>15. open'
  <2>1. (g.n - 1 > 0) = TRUE
    BY <1>7
  <2> QED
    BY <1>8, <2>1
<1> QED
  BY <1>14, <1>15

\* More of the frame of h is read; got is what there is of it then.
LEMMA BodyStream ==
    ASSUME Types, NEW h, Stream(h), RecvBody
    PROVE  /\ \E g : Stream(g)'
           /\ \/ received' = received
              \/ \E got \in Seq(Part) :
                   /\ received' = Append(received, got)
                   /\ h \in Part /\ Len(got) = h.n - 1
                   /\ \A j \in 1..Len(got) : got[j] = Nth(h, j + 1)
<1>1. /\ pipe \in Seq(Part) /\ Len(pipe) \in Nat /\ rx.need \in Nat /\ IsHead(h)
      /\ h.i + rx.need = h.n /\ received \in Seq(Seq(Part)) /\ Len(received) \in Nat
      /\ rx.need > 0 => h \in Part /\ h.i < h.n
  BY StreamTypes
<1>2. rx.need > 0 /\ UNCHANGED <<sending, frames>>
  BY DEF RecvBody
<1>3. PICK n \in 1..Len(pipe), got \in Seq(Part) :
        /\ n = rx.need \/ (n < rx.need /\ n = Len(pipe))
        /\ Len(got) = Len(rx.got) + n
        /\ \A j \in 1..Len(rx.got) : got[j] = rx.got[j]
        /\ \A j \in 1..n : got[Len(rx.got) + j] = pipe[j]
        /\ pipe' \in Seq(Part) /\ Len(pipe') = Len(pipe) - n
        /\ \A p \in 1..(Len(pipe) - n) : pipe'[p] = pipe[n + p]
        /\ n = rx.need => rx' = NoRx /\ received' = Append(received, got)
        /\ n # rx.need => rx' = [need |-> rx.need - n, got |-> got] /\ received' = received
  BY BodyIs
<1>4. /\ Lined(h, pipe) /\ Ended(h, pipe, sending) /\ Taken(h)
      /\ Numbered(received, rx.need > 0, h, pipe, SentBy)
  BY DEF Stream
<1>5. h \in Part /\ h.i \in Nat \ {0} /\ h.n \in Nat /\ n \in Nat \ {0} /\ n <= rx.need
  BY SMTT(30), <1>1, <1>2, <1>3 DEF IsHead
<1>6. \A j \in 1..n : pipe[j] = Later(h, j)
  <2> SUFFICES ASSUME NEW j \in 1..n
      PROVE  pipe[j] = Later(h, j)
    OBVIOUS
  <2>1. 0 \in 0..Len(pipe) /\ At(h, pipe, 0) = h
    BY <1>1 DEF At
  <2>2. j \in 1..(Len(pipe) - 0) /\ h.i + j <= h.n /\ 0 + j = j
    <3>1. Len(pipe) \in Nat /\ n <= Len(pipe) /\ h.i + rx.need = h.n /\ rx.need \in Nat
      BY <1>1, <1>3
    <3> QED
      BY ONLY <1>5, <3>1, j \in 1..n
  <2>3. pipe[0 + j] = Later(h, j)
    BY ONLY <1>4, <2>1, <2>2 DEF Lined
  <2> QED
    BY <2>2, <2>3
<1>7. PICK g : g = pipe[n]
  OBVIOUS
<1>8. g = Later(h, n) /\ g.s = h.s /\ g.k = h.k /\ g.n = h.n /\ g.i = h.i + n
  <2>1. n \in 1..n
    BY <1>5
  <2> QED
    BY <1>6, <1>7, <2>1 DEF Later, Nth
<1>9. Len(got) = g.i - 1 /\ \A j \in 1..Len(got) : got[j] = Nth(h, j + 1)
  <2>1. Len(rx.got) = h.i - 1 /\ \A j \in 1..Len(rx.got) : rx.got[j] = Nth(h, j + 1)
    BY <1>2, <1>4 DEF Taken
  <2>2. Len(got) = g.i - 1
    BY <1>3, <1>5, <1>8, <2>1
  <2>3. ASSUME NEW j \in 1..Len(got)
        PROVE  got[j] = Nth(h, j + 1)
    <3>1. CASE j <= Len(rx.got)
      <4>1. j \in 1..Len(rx.got)
        BY <1>5, <2>1, <3>1
      <4> QED
        BY <1>3, <2>1, <4>1
    <3>2. CASE j > Len(rx.got)
      <4> DEFINE e == j - Len(rx.got)
      <4>1. e \in 1..n /\ j = Len(rx.got) + e /\ h.i + e = j + 1
        BY SMTT(30), <1>5, <1>8, <2>1, <2>2, <3>2
      <4> HIDE DEF e
      <4>2. got[Len(rx.got) + e] = pipe[e] /\ pipe[e] = Later(h, e)
        BY <1>3, <1>6, <4>1
      <4> QED
        BY <4>1, <4>2 DEF Later
    <3> QED
      BY <1>5, <2>1, <3>1, <3>2
  <2> QED
    BY <2>2, <2>3
<1> DEFINE r == pipe'
           m1 == received
           m2 == received'
           b2 == rx'.need > 0
           sent == SentBy
<1>10. r \in Seq(Part) /\ Len(r) = Len(pipe) - n /\ \A p \in 1..Len(r) : r[p] = pipe[n + p]
  BY <1>3
<1>11. sent = SentBy' /\ Numbered(m1, TRUE, h, pipe, sent)
  <2>1. (rx.need > 0) = TRUE
    BY <1>2
  <2>2. SentBy' = SentBy
    BY <1>2 DEF SentBy, Sent, Going
  <2> QED
    BY <1>4, <2>1, <2>2
<1>12. Taken(g)' /\ (n = rx.need => b2 = FALSE) /\ (n # rx.need => b2 = TRUE)
  <2>1. IsHead(g)
    <3>1. g \in Part /\ g.i <= g.n
      <4>1. pipe[n] \in Part
        BY ONLY <1>1, <1>3, ElementOfSeq
      <4> QED
        BY <1>1, <1>5, <1>7, <1>8, <4>1
    <3> QED
      BY <1>5, <1>8, <3>1 DEF IsHead
  <2>2. CASE n = rx.need
    <3>1. rx'.need = 0 /\ rx'.got = <<>> /\ Len(rx'.got) = 0
      BY <1>3, <2>2 DEF NoRx
    <3> QED
      BY <1>1, <1>5, <1>8, <2>1, <2>2, <3>1 DEF Taken
  <2>3. CASE n # rx.need
    <3>1. rx'.need = rx.need - n /\ rx'.got = got
      BY <1>3, <2>3
    <3>2. rx'.need \in Nat \ {0}
      BY <1>1, <1>5, <2>3, <3>1
    <3>3. \A j \in 1..Len(got) : got[j] = Nth(g, j + 1)
      BY <1>8, <1>9 DEF Nth
    <3>4. g.i + rx'.need = g.n
      BY <1>1, <1>5, <1>8, <3>1
    <3> QED
      BY <1>9, <2>1, <2>3, <3>1, <3>2, <3>3, <3>4 DEF Taken
  <2> QED
    BY <2>2, <2>3
<1>13. /\ n = rx.need => \A s, k : Came(m2, s, k) <=> Came(m1, s, k) \/ (s = h.s /\ k = h.k)
       /\ n # rx.need => m2 = m1
  <2>1. CASE n = rx.need
    <3>1. m2 = Append(m1, got) /\ m1 \in Seq(Seq(Part)) /\ Len(m1) \in Nat
      BY <1>1, <1>3, <2>1
    <3>2. 1 \in 1..Len(got)
      BY <1>1, <1>5, <1>8, <1>9, <2>1
    <3>3. got[1].s = h.s /\ got[1].k = h.k
      <4>1. got[1] = Nth(h, 1 + 1)
        BY ONLY <1>9, <3>2
      <4> QED
        BY <4>1 DEF Nth
    <3> HIDE DEF m1, m2
    <3>4. /\ Len(m2) = Len(m1) + 1 /\ \A j \in 1..Len(m1) : m2[j] = m1[j]
          /\ m2[Len(m1) + 1] = got
      BY <3>1, AppendProperties
    <3>5. ASSUME NEW s, NEW k
          PROVE  Came(m2, s, k) <=> Came(m1, s, k) \/ (s = h.s /\ k = h.k)
      <4>1. \A j \in 1..Len(m2) : j \in 1..Len(m1) \/ j = Len(m1) + 1
        BY <3>1, <3>4
      <4>2. Len(m1) + 1 \in 1..Len(m2) /\ \A j \in 1..Len(m1) : j \in 1..Len(m2)
        BY <3>1, <3>4
      <4> QED
        BY <3>3, <3>4, <4>1, <4>2 DEF Came
    <3> QED
      BY <2>1, <3>5
  <2>2. CASE n # rx.need
    BY <1>3, <2>2
  <2> QED
    BY <2>1, <2>2
<1> HIDE DEF r, m1, m2, b2, sent
<1>14. /\ IsHead(g) /\ Lined(g, r)
       /\ \A p \in 0..Len(r) : At(g, r, p) = At(h, pipe, n + p)
  <2>1. /\ IsHead(pipe[n]) /\ Lined(pipe[n], r)
        /\ \A p \in 0..Len(r) : At(pipe[n], r, p) = At(h, pipe, n + p)
    BY ONLY ZenonT(30), <1>1, <1>3, <1>4, <1>10, LinedCut
  <2> QED
    BY <1>7, <2>1
<1>15. Ended(g, r, sending')
  <2>1. At(g, r, Len(r)) = At(h, pipe, Len(pipe))
    <3>1. Len(r) \in 0..Len(r) /\ n + Len(r) = Len(pipe)
      BY <1>1, <1>3, <1>10
    <3> QED
      BY <1>14, <3>1
  <2> QED
    BY <1>2, <1>4, <2>1 DEF Ended
<1>16. \A j \in 0..n : At(h, pipe, j).s = h.s /\ At(h, pipe, j).k = h.k
  <2> SUFFICES ASSUME NEW j \in 0..n
      PROVE  At(h, pipe, j).s = h.s /\ At(h, pipe, j).k = h.k
    OBVIOUS
  <2>1. CASE j = 0
    BY <2>1 DEF At
  <2>2. CASE j # 0
    <3>1. j \in 1..n
      BY <1>5, <2>2
    <3> QED
      <4>1. At(h, pipe, j) = Later(h, j)
        BY <1>6, <2>2, <3>1 DEF At
      <4> QED
        BY <4>1 DEF Later, Nth
  <2> QED
    BY <2>1, <2>2
<1>17. b2 \in BOOLEAN
  BY <1>12
<1>18. ASSUME NEW s \in Senders, NEW k \in Nat, NEW p \in 0..Len(r)
       PROVE  Seen(m2, b2, g, r, s, k, p) <=> Seen(m1, TRUE, h, pipe, s, k, n + p)
  <2>1. ASSUME NEW j \in 0..p
        PROVE  n + j \in 0..(n + p) /\ n + j > 0 /\ At(g, r, j) = At(h, pipe, n + j)
    <3>1. j \in 0..Len(r)
      BY <1>1, <1>3, <1>10
    <3>2. n + j \in 0..(n + p) /\ n + j > 0
      BY <1>5
    <3> QED
      BY <1>14, <3>1, <3>2
  <2>2. ASSUME NEW j \in 0..(n + p), j > n
        PROVE  j - n \in 0..p /\ j - n > 0 /\ At(g, r, j - n) = At(h, pipe, j)
    <3>1. j - n \in 0..p /\ j - n > 0 /\ n + (j - n) = j
      BY <1>5, <2>2
    <3> QED
      BY <2>1, <3>1
  <2>3. 0 \in 0..p /\ 0 \in 0..(n + p)
    BY <1>5
  <2>4. h.s = s /\ h.k = k => Seen(m1, TRUE, h, pipe, s, k, n + p)
    <3>1. At(h, pipe, 0) = h
      BY DEF At
    <3> QED
      BY <2>3, <3>1 DEF Seen
  <2>5. h.s = s /\ h.k = k => Seen(m2, b2, g, r, s, k, p)
    <3>1. CASE n = rx.need
      BY <1>13, <3>1 DEF Seen
    <3>2. CASE n # rx.need
      <4>1. b2 = TRUE
        BY <1>12, <3>2
      <4>2. At(g, r, 0) = g
        BY DEF At
      <4> QED
        BY <1>8, <2>3, <4>1, <4>2 DEF Seen
    <3> QED
      BY <3>1, <3>2
  <2>6. ASSUME Seen(m2, b2, g, r, s, k, p)
        PROVE  Seen(m1, TRUE, h, pipe, s, k, n + p)
    <3>1. CASE Came(m2, s, k)
      <4>1. Came(m1, s, k) \/ (h.s = s /\ h.k = k)
        BY <1>13, <3>1
      <4> QED
        BY <2>4, <4>1 DEF Seen
    <3>2. CASE \E j \in 0..p : At(g, r, j).s = s /\ At(g, r, j).k = k
      BY <2>1, <3>2 DEF Seen
    <3> QED
      BY <2>6, <3>1, <3>2 DEF Seen
  <2>7. ASSUME Seen(m1, TRUE, h, pipe, s, k, n + p)
        PROVE  Seen(m2, b2, g, r, s, k, p)
    <3>1. CASE Came(m1, s, k)
      BY <1>13, <3>1 DEF Seen
    <3>2. ASSUME NEW j \in 0..(n + p), At(h, pipe, j).s = s, At(h, pipe, j).k = k
          PROVE  Seen(m2, b2, g, r, s, k, p)
      <4>1. CASE j <= n
        <5>1. j \in 0..n
          BY <1>5, <4>1
        <5> QED
          BY <1>16, <2>5, <3>2, <5>1
      <4>2. CASE j > n
        BY <2>2, <3>2, <4>2 DEF Seen
      <4> QED
        BY <1>5, <4>1, <4>2
    <3> QED
      BY <2>7, <3>1, <3>2 DEF Seen
  <2> QED
    BY <2>6, <2>7
<1>19. b2 => \A k \in Nat : Came(m2, g.s, k) <=> k \in 1..(g.k - 1)
  <2> SUFFICES ASSUME b2
      PROVE  \A k \in Nat : Came(m2, g.s, k) <=> k \in 1..(g.k - 1)
    OBVIOUS
  <2>1. m2 = m1
    BY <1>12, <1>13
  <2> QED
    BY <1>8, <1>11, <2>1 DEF Numbered
<1>20. Numbered(m2, b2, g, r, sent)
  <2>1. pipe \in Seq(Part) /\ n \in 1..Len(pipe) /\ Numbered(m1, TRUE, h, pipe, sent)
    BY <1>1, <1>11
  <2> QED
    BY ONLY <2>1, <1>10, <1>17, <1>18, <1>19, CutNumbered
<1>21. Stream(g)'
  BY <1>11, <1>12, <1>14, <1>15, <1>20 DEF Stream, r, m2, b2
<1>22. n = rx.need => Len(got) = h.n - 1
  BY <1>1, <1>5, <1>8, <1>9
<1> QED
  BY <1>3, <1>5, <1>9, <1>21, <1>22
-----------------------------------------------------------------------------
(* The messages.                                                           *)

\* The same messages, on a connection that is open.
LEMMA IntactSame ==
    ASSUME FramesIntact, torn' \in {torn, TRUE}, torn \in BOOLEAN, received' = received, open'
    PROVE  FramesIntact'
<1> SUFFICES ASSUME ~torn'
    PROVE  FramesIntact'
  BY DEF FramesIntact
<1>1. ~torn
  OBVIOUS
<1>2. \A s, i : NumbersOf(s, i)' = NumbersOf(s, i)
  BY DEF NumbersOf
<1> QED
  BY <1>1, <1>2 DEF FramesIntact, NumbersOf

\* A frame that has been read whole is the body of one that was sent, and
\* that of its sender's which is due.
LEMMA IntactMore ==
    ASSUME Types, NEW h, Stream(h), FramesIntact, ~torn, rx.need > 0, open', h \in Part,
           NEW got \in Seq(Part), received' = Append(received, got), Len(got) = h.n - 1,
           \A j \in 1..Len(got) : got[j] = Nth(h, j + 1)
    PROVE  FramesIntact'
<1> DEFINE L == Len(received)
<1>1. /\ received \in Seq(Seq(Part)) /\ L \in Nat /\ DOMAIN received = 1..L
      /\ \A i \in 1..L : received[i] \in Seq(Part)
  BY LenProperties, ElementOfSeq DEF Types, WireTypeOK
<1>2. PICK m : m = received'
  OBVIOUS
<1>3. /\ m \in Seq(Seq(Part)) /\ Len(m) = L + 1 /\ DOMAIN m = 1..(L + 1)
      /\ \A i \in 1..L : m[i] = received[i]
      /\ m[L + 1] = got
  <2>1. m = Append(received, got)
    BY <1>2
  <2>2. /\ m \in Seq(Seq(Part)) /\ Len(m) = Len(received) + 1
        /\ \A i \in 1..Len(received) : m[i] = received[i]
        /\ m[Len(received) + 1] = got
    BY ONLY <1>1, <2>1, AppendProperties, got \in Seq(Part)
  <2> QED
    BY <2>2, LenProperties
<1>4. h.s \in Senders /\ h.k \in 1..MaxFrames /\ h.n \in FrameLens /\ h.n \in Nat /\ h.n > 1
  <2>1. \A x \in FrameLens : x \in Nat /\ x > 1
    BY FramingAssumption
  <2> QED
    BY <2>1 DEF Part
<1>5. got # <<>> /\ got[1].s = h.s /\ got[1].k = h.k /\ got[1].n = h.n
  <2>1. 1 \in 1..Len(got)
    BY <1>4
  <2>2. got[1] = Nth(h, 1 + 1)
    BY ONLY <2>1, \A j \in 1..Len(got) : got[j] = Nth(h, j + 1)
  <2>3. got = <<>> => Len(got) = 0
    OBVIOUS
  <2> QED
    BY <1>4, <2>2, <2>3 DEF Nth
<1>6. got = Tail(FrameParts(got[1].s, got[1].k, got[1].n))
  <2> DEFINE f == FrameParts(h.s, h.k, h.n)
  <2>1. /\ f \in Seq(Part) /\ Len(f) = h.n
        /\ \A i \in 1..h.n : f[i] = [s |-> h.s, k |-> h.k, i |-> i, n |-> h.n]
    BY ONLY <1>4, FramePartsIs
  <2> HIDE DEF f
  <2>2. f # <<>>
    <3>1. f = <<>> => Len(f) = 0
      OBVIOUS
    <3> QED
      BY <1>4, <2>1, <3>1
  <2>3. Tail(f) \in Seq(Part) /\ Len(Tail(f)) = Len(f) - 1 /\ \A i \in 1..Len(Tail(f)) : Tail(f)[i] = f[i + 1]
    BY ONLY <2>1, <2>2, HeadTailProperties
  <2>4. Len(Tail(f)) = Len(got)
    BY <2>1, <2>3
  <2>5. ASSUME NEW i \in 1..Len(got)
        PROVE  got[i] = Tail(f)[i]
    <3>1. i + 1 \in 1..h.n
      BY <1>4
    <3>2. f[i + 1] = Nth(h, i + 1)
      BY <2>1, <3>1 DEF Nth
    <3> QED
      BY <2>3, <2>4, <3>2
  <2>6. got = Tail(f)
    BY ONLY <2>3, <2>4, <2>5, SeqEqual, got \in Seq(Part)
  <2> QED
    BY <1>5, <2>6 DEF f
<1>7. /\ \A x \in ToSet(received) : x # <<>> /\ x = Tail(FrameParts(x[1].s, x[1].k, x[1].n))
      /\ \A i \in 1..L : NumbersOf(received[i][1].s, i - 1) = 1..(received[i][1].k - 1)
  BY <1>1 DEF FramesIntact
<1>8. \A x \in ToSet(m) : x # <<>> /\ x = Tail(FrameParts(x[1].s, x[1].k, x[1].n))
  <2>1. ASSUME NEW i \in 1..(L + 1)
        PROVE  m[i] \in ToSet(received) \/ m[i] = got
    <3>1. CASE i \in 1..L
      <4>1. m[i] = received[i] /\ i \in DOMAIN received
        BY <1>1, <1>3, <3>1
      <4> QED
        BY <4>1 DEF ToSet
    <3>2. CASE i = L + 1
      BY <1>3, <3>2
    <3> QED
      BY <1>1, <3>1, <3>2
  <2>2. ToSet(m) = {m[i] : i \in 1..(L + 1)}
    BY <1>3 DEF ToSet
  <2> QED
    BY <1>5, <1>6, <1>7, <2>1, <2>2
<1>9. ASSUME NEW i \in 1..(L + 1)
      PROVE  {m[j][1].k : j \in {j \in 1..(i - 1) : m[j][1].s = m[i][1].s}} = 1..(m[i][1].k - 1)
  <2>1. \A j \in 1..(i - 1) : m[j] = received[j]
    BY <1>1, <1>3
  <2>2. CASE i \in 1..L
    <3>1. m[i] = received[i]
      BY <1>3, <2>2
    <3>2. {received[j][1].k : j \in {j \in 1..(i - 1) : received[j][1].s = received[i][1].s}}
            = 1..(received[i][1].k - 1)
      BY <1>7, <2>2 DEF NumbersOf
    <3>3. {m[j][1].k : j \in {j \in 1..(i - 1) : m[j][1].s = m[i][1].s}}
            = {received[j][1].k : j \in {j \in 1..(i - 1) : received[j][1].s = received[i][1].s}}
      BY <2>1, <3>1
    <3> QED
      BY <3>1, <3>2, <3>3
  <2>3. CASE i = L + 1
    <3> DEFINE Q == {received[j][1].k : j \in {j \in 1..L : received[j][1].s = h.s}}
    <3>1. \A k \in Nat : Came(received, h.s, k) <=> k \in 1..(h.k - 1)
      BY DEF Stream, Numbered
    <3>2. \A j \in 1..L : received[j][1].k \in Nat
      <4> SUFFICES ASSUME NEW j \in 1..L
          PROVE  received[j][1].k \in Nat
        OBVIOUS
      <4>1. received[j] \in Seq(Part) /\ received[j] # <<>>
        BY <1>1, <1>7 DEF ToSet
      <4>2. 1 \in 1..Len(received[j])
        BY <4>1, EmptySeq
      <4>3. received[j][1] \in Part
        BY ONLY <4>1, <4>2, ElementOfSeq
      <4> QED
        BY <4>3 DEF Part
    <3>3. \A k \in Nat : k \in Q <=> Came(received, h.s, k)
      BY DEF Came
    <3>4. Q \subseteq Nat
      BY <3>2
    <3>5. 1..(h.k - 1) \subseteq Nat
      OBVIOUS
    <3>6. Q = 1..(h.k - 1)
      <4> HIDE DEF Q
      <4> QED
        BY <3>1, <3>3, <3>4, <3>5
    <3>7. m[i] = got /\ i - 1 = L
      BY <1>1, <1>3, <2>3
    <3>8. {m[j][1].k : j \in {j \in 1..(i - 1) : m[j][1].s = m[i][1].s}} = Q
      BY <1>5, <2>1, <3>7
    <3> QED
      BY <1>5, <3>6, <3>7, <3>8
  <2> QED
    BY <1>1, <2>2, <2>3
<1>10. ASSUME NEW i \in DOMAIN m
       PROVE  NumbersOf(m[i][1].s, i - 1)' = 1..(m[i][1].k - 1)
  BY ZenonT(30), <1>2, <1>3, <1>9 DEF NumbersOf
<1> QED
  BY <1>2, <1>8, <1>10 DEF FramesIntact

LEMMA WireStart == WireInit => WireInv
<1> SUFFICES ASSUME WireInit
    PROVE  WireInv
  OBVIOUS
<1> DEFINE h == [s |-> 0, k |-> 0, i |-> 1, n |-> 1]
<1>1. /\ sending = [s \in Senders |-> <<>>] /\ frames = [s \in Senders |-> <<>>]
      /\ pipe = <<>> /\ rx.need = 0 /\ rx.got = <<>> /\ received = <<>> /\ open
  BY DEF WireInit, NoRx
<1>2. Len(pipe) = 0 /\ Len(received) = 0 /\ Len(rx.got) = 0
  BY <1>1
<1>3. Taken(h)
  BY <1>1, <1>2 DEF Taken, IsHead
<1>4. Lined(h, pipe)
  BY <1>2 DEF Lined
<1>5. Ended(h, pipe, sending)
  BY <1>1, <1>2 DEF Ended, At, Going
<1>6. Numbered(received, rx.need > 0, h, pipe, SentBy)
  <2> DEFINE b == rx.need > 0
  <2>1. b = FALSE
    BY <1>1
  <2>2. \A s \in Senders : SentBy[s] = 0
    BY <1>1 DEF SentBy, Sent
  <2>3. \A s, k : ~Seen(received, b, h, pipe, s, k, 0)
    BY <1>2, <2>1 DEF Seen, Came
  <2> HIDE DEF b, h
  <2> QED
    BY <1>2, <2>1, <2>2, <2>3 DEF Numbered, b
<1>7. FramesIntact
  <2>1. DOMAIN received = {} /\ ToSet(received) = {}
    BY <1>1 DEF ToSet
  <2> QED
    BY <1>1, <2>1 DEF FramesIntact
<1>8. Types
  BY TypesStart
<1>9. Stream(h)
  BY <1>3, <1>4, <1>5, <1>6 DEF Stream
<1> HIDE DEF h
<1> QED
  BY <1>7, <1>8, <1>9 DEF WireInv

LEMMA WireStep == WireInv /\ [WireNext]_wireVars => WireInv'
<1> SUFFICES ASSUME WireInv, [WireNext]_wireVars
    PROVE  WireInv'
  OBVIOUS
<1>1. Types /\ FramesIntact /\ (~torn => \E h : Stream(h)) /\ torn \in BOOLEAN
  BY DEF WireInv, Types, WireTypeOK
<1>2. Types'
  BY <1>1, TypesStep
<1> SUFFICES FramesIntact' /\ (~torn' => \E h : Stream(h)')
  BY <1>2 DEF WireInv
<1>3. CASE UNCHANGED wireVars
  <2>1. FramesIntact'
    BY <1>1, <1>3 DEF wireVars, FramesIntact, NumbersOf
  <2>2. \A h : Stream(h)' <=> Stream(h)
    BY <1>3 DEF wireVars, Stream, Taken, SentBy, Sent
  <2> QED
    BY <1>1, <1>3, <2>1, <2>2 DEF wireVars
<1>4. ASSUME NEW s \in Senders, BeginSend(s)
      PROVE  FramesIntact' /\ (~torn' => \E h : Stream(h)')
  <2>1. torn' = torn /\ received' = received /\ open'
    BY <1>4 DEF BeginSend
  <2>2. FramesIntact'
    BY <1>1, <2>1, IntactSame
  <2> QED
    BY <1>1, <1>4, <2>1, <2>2, BeginStream
<1>5. ASSUME NEW s \in Senders, SendSome(s)
      PROVE  FramesIntact' /\ (~torn' => \E h : Stream(h)')
  <2>1. torn' \in {torn, TRUE} /\ (~torn' => ~torn) /\ received' = received /\ open'
    BY <1>1, <1>5 DEF SendSome
  <2>2. FramesIntact'
    BY <1>1, <2>1, IntactSame
  <2> QED
    BY <1>1, <1>5, <2>1, <2>2, SendStream
<1>6. ASSUME NEW s \in Senders, SendGivesUp(s)
      PROVE  FramesIntact' /\ (~torn' => \E h : Stream(h)')
  <2>1. torn' \in {torn, TRUE} /\ (~torn' => ~torn) /\ received' = received /\ open'
    BY <1>1, <1>6 DEF SendGivesUp, Begun
  <2>2. FramesIntact'
    BY <1>1, <2>1, IntactSame
  <2> QED
    BY <1>1, <1>6, <2>1, <2>2, GiveUpStream
<1>7. CASE RecvLength
  <2>1. torn' = torn /\ received' = received
    BY <1>7 DEF RecvLength
  <2>2. CASE torn
    BY <2>1, <2>2 DEF FramesIntact
  <2>3. CASE ~torn
    <3>1. (\E h : Stream(h)') /\ open'
      BY <1>1, <1>7, <2>3, LengthStream
    <3>2. FramesIntact'
      BY <1>1, <2>1, <3>1, IntactSame
    <3> QED
      BY <3>1, <3>2
  <2> QED
    BY <2>2, <2>3
<1>8. CASE RecvBody
  <2>1. torn' = torn /\ open' /\ rx.need > 0
    BY <1>8 DEF RecvBody
  <2>2. CASE torn
    BY <2>1, <2>2 DEF FramesIntact
  <2>3. CASE ~torn
    <3>1. PICK h : Stream(h)
      BY <1>1, <2>3
    <3>2. (\E g : Stream(g)')
      BY <1>1, <1>8, <3>1, BodyStream
    <3>3. CASE received' = received
      <4>1. FramesIntact'
        BY <1>1, <2>1, <3>3, IntactSame
      <4> QED
        BY <3>2, <4>1
    <3>4. ASSUME NEW got \in Seq(Part), received' = Append(received, got),
                 h \in Part, Len(got) = h.n - 1, \A j \in 1..Len(got) : got[j] = Nth(h, j + 1)
          PROVE  FramesIntact'
      BY ONLY <1>1, <2>1, <2>3, <3>1, <3>4, IntactMore
    <3> QED
      BY <1>1, <1>8, <3>1, <3>2, <3>3, <3>4, BodyStream
  <2> QED
    BY <2>2, <2>3
<1>9. CASE RecvFails
  <2>1. /\ UNCHANGED <<blocks, sending, frames, pipe, rx, received, torn>>
        /\ ~blocks.recv /\ rx.need > 0
    BY <1>9 DEF RecvFails
  <2>2. FramesIntact'
    BY <1>1, <2>1 DEF FramesIntact, NumbersOf
  <2>3. \A h : Stream(h)' <=> Stream(h)
    BY <2>1 DEF Stream, Taken, SentBy, Sent
  <2> QED
    BY <1>1, <2>1, <2>2, <2>3
<1> QED
  BY <1>3, <1>4, <1>5, <1>6, <1>7, <1>8, <1>9 DEF WireNext

LEMMA AlwaysWireInv == WireSpec => []WireInv
BY WireStart, WireStep, PTL DEF WireSpec

\* Both ends keep whole parts, no more of them in the kernel's buffer than it
\* holds, and what they wait for is never negative (ipc.c, net.h).
THEOREM WireTypeCorrect == WireSpec => []WireTypeOK
<1>1. WireInv => WireTypeOK
  BY DEF WireInv, Types
<1> QED
  BY <1>1, AlwaysWireInv, PTL

\* Whatever the kernel takes and gives at a time, ipc_recv hands over the
\* bodies of the frames that ipc_send was given, whole and in each thread's
\* order, until a send was given up in the middle of a frame or two threads'
\* sends met.
THEOREM FramesArriveWhole == WireSpec => []FramesIntact
<1>1. WireInv => FramesIntact
  BY DEF WireInv
<1> QED
  BY <1>1, AlwaysWireInv, PTL
=============================================================================
