---------------------------- MODULE BackendProofs ----------------------------
(***************************************************************************)
(* Proofs about FsWorker, for any number of requests, any paths and any    *)
(* sandbox, on a file system that FsAssumption describes, and about the    *)
(* backend's threads of both kinds together; those about chat requests are *)
(* in AgentLoopProofs.  FsWorker's inductive invariant, FsInv, is built in *)
(* layers:                                                                 *)
(*   FsTypeOK                                                              *)
(*   FsPhaseInv what a thread knows at each place: whether it asked, the   *)
(*              answer it got, whether it has done its work                *)
(*   TreeInv    what is there is in a directory, no link leads on to the   *)
(*              sandbox, and no file inside has the text of one outside    *)
(*   OpenInv    an open file that has a name is at the thread's path       *)
(*   PathInv    a path without doubts is inside the sandbox and leads      *)
(*              through no link                                            *)
(*   StandInv   what was checked stands, and a file being written is       *)
(*              empty, as long as there are no doubts about the path       *)
(*   ReplyInv   a request is answered when it is done                      *)
(* BackendParts: MCBackend's behaviours are those of its components.       *)
(***************************************************************************)
EXTENDS MCBackend, AgentLoopProofs, FiniteSetTheorems, WellFoundedInduction,
        SequenceTheorems, TLAPS

FsPhaseOK(x) ==
    /\ x.pc \in {"idle", "resolve", "stat", "read", "list"} => x.said = "unasked" /\ ~x.did
    /\ x.pc = "ask" => x.said # "unasked" /\ ~x.did
    /\ x.pc \in {"open", "remove"} => x.said = "yes" /\ ~x.did
    /\ x.pc = "write" => x.did
    /\ x.did => x.said = "yes"
    /\ x.pc = "stat" => x.kind = "create"

FsPhaseInv == \A o \in FsOps : FsPhaseOK(op[o])

\* No link on the way to a path, nor at its end.
Clear(p) == \A r \in Seq(STRING) : IsPrefix(r, p) => At(r) # "link"

TreeInv ==
    /\ \A p \in DOMAIN tree : At(p) # "missing" => IsDir(Parent(p))
    /\ \A p \in DOMAIN tree : At(p) = "link" => p \in DOMAIN LeadsTo
    /\ \A p \in DOMAIN tree : At(p) = "outside" => ~IsPrefix(Root, p)
    /\ Clear(Root)

OpenInv == \A o \in FsOps : op[o].pc = "write" /\ op[o].linked => IsFile(op[o].abs)

AtPath == {"stat", "ask", "open", "write", "remove", "read", "list"}
Sure(x) == x.doubts \cap {"hand", "link"} = {}
PathInv ==
    \A o \in FsOps : op[o].pc \in AtPath =>
        /\ op[o].abs # Nowhere
        /\ Sure(op[o]) => IsPrefix(Root, op[o].abs) /\ Clear(op[o].abs)

StandInv ==
    /\ CheckStands
    /\ \A o \in FsOps : op[o].pc = "write" /\ op[o].doubts = {} =>
         op[o].linked /\ At(op[o].abs) = ""

\* As long as a request is not done it has no reply.
ReplyInv == \A o \in FsOps : op[o].pc # "done" => reply[o] = Sent("none")

FsInv == FsTypeOK /\ FsPhaseInv /\ TreeInv /\ OpenInv /\ PathInv /\ StandInv /\ ReplyInv
-----------------------------------------------------------------------------
(* Sequences, and numbers.                                                 *)

\* A prefix is what it should be.
LEMMA PrefixElements ==
    ASSUME NEW S, NEW s \in Seq(S), NEW t \in Seq(S)
    PROVE  IsPrefix(s, t) <=> Len(s) <= Len(t) /\ \A i \in 1..Len(s) : s[i] = t[i]
<1> Len(s) \in Nat /\ Len(t) \in Nat
  OBVIOUS
<1>1. SubSeq(s, 1, Len(s)) = s
  BY SubSeqFull
<1>2. ASSUME Len(s) <= Len(t)
      PROVE  /\ SubSeq(t, 1, Len(s)) \in Seq(S) /\ Len(SubSeq(t, 1, Len(s))) = Len(s)
             /\ \A i \in 1..Len(s) : SubSeq(t, 1, Len(s))[i] = t[i]
  BY <1>2
<1>3. ASSUME Len(s) <= Len(t), \A i \in 1..Len(s) : s[i] = t[i]
      PROVE  s = SubSeq(t, 1, Len(s))
  BY <1>2, <1>3, SeqEqual
<1>4. QED
  BY <1>1, <1>2, <1>3 DEF IsPrefix

\* All but the last element.
LEMMA FrontElements ==
    ASSUME NEW S, NEW s \in Seq(S), s # <<>>
    PROVE  /\ Front(s) \in Seq(S) /\ Len(Front(s)) = Len(s) - 1
           /\ Len(s) \in Nat \ {0} /\ Last(s) \in S
           /\ \A i \in 1..(Len(s) - 1) : Front(s)[i] = s[i]
<1>1. Len(s) \in Nat \ {0}
  OBVIOUS
<1>2. Last(s) \in S
  BY <1>1 DEF Last
<1>3. /\ Front(s) \in Seq(S) /\ Len(Front(s)) = Len(s) - 1
      /\ \A i \in 1..(Len(s) - 1) : Front(s)[i] = s[i]
  <2> DEFINE n == Len(s) - 1
  <2>1. n \in Nat /\ 1 \in Int /\ \A i \in 1..n : s[i] \in S
    BY <1>1
  <2> HIDE DEF n
  <2>2. /\ SubSeq(s, 1, n) \in Seq(S)
        /\ Len(SubSeq(s, 1, n)) = IF 1 <= n THEN n - 1 + 1 ELSE 0
        /\ \A i \in 1..(n - 1 + 1) : SubSeq(s, 1, n)[i] = s[1 + i - 1]
    <3>1. n \in Int
      BY <2>1
    <3>2. QED
      BY <2>1, <3>1, SubSeqProperties
  <2>3. /\ Len(SubSeq(s, 1, n)) = n
        /\ \A i \in 1..n : SubSeq(s, 1, n)[i] = s[i]
    BY <2>1, <2>2
  <2>4. QED
    BY <2>2, <2>3 DEF Front, n
<1>4. QED
  BY <1>1, <1>2, <1>3

LEMMA AppendIn ==
    ASSUME NEW S, NEW s \in Seq(S), NEW e \in S
    PROVE  Append(s, e) \in Seq(S)
  OBVIOUS

\* A set of numbers up to n that is not empty has a greatest one.
LEMMA GreatestNumber ==
    ASSUME NEW n \in Nat, NEW s \in SUBSET (1..n), s # {}
    PROVE  Max(s) \in s
<1> DEFINE T == {m \in Nat : \A y \in s : y <= m}
<1>1. T \in SUBSET Nat /\ n \in T
  OBVIOUS
<1>2. PICK m \in T : \A k \in T : m <= k
  BY <1>1, LeastNumber
<1>3. m \in s
  <2> SUFFICES ASSUME m \notin s PROVE FALSE
    OBVIOUS
  <2>1. \A y \in s : y <= m - 1 /\ m - 1 \in Nat
    OBVIOUS
  <2>2. m - 1 \in T
    BY <2>1
  <2>3. QED
    BY <2>2, <1>2
<1>4. \E x \in s : \A y \in s : x >= y
  BY <1>3
<1>5. QED
  BY <1>4 DEF Max
\* A path and its prefixes.
LEMMA PrefixFacts ==
    /\ \A s \in Seq(STRING) : IsPrefix(s, s)
    /\ \A s, t, u \in Seq(STRING) : IsPrefix(s, t) /\ IsPrefix(t, u) => IsPrefix(s, u)
    /\ \A s, t \in Seq(STRING) : IsPrefix(s, t) /\ IsPrefix(t, s) => s = t
<1>1. \A s \in Seq(STRING) : IsPrefix(s, s)
  BY PrefixElements
<1>2. ASSUME NEW s \in Seq(STRING), NEW t \in Seq(STRING), NEW u \in Seq(STRING),
             IsPrefix(s, t), IsPrefix(t, u)
      PROVE  IsPrefix(s, u)
  <2>1. Len(s) \in Nat /\ Len(t) \in Nat /\ Len(u) \in Nat
    OBVIOUS
  <2>2. Len(s) <= Len(t) /\ \A i \in 1..Len(s) : s[i] = t[i]
    BY <1>2, PrefixElements
  <2>3. Len(t) <= Len(u) /\ \A i \in 1..Len(t) : t[i] = u[i]
    BY <1>2, PrefixElements
  <2>4. Len(s) <= Len(u) /\ \A i \in 1..Len(s) : s[i] = u[i]
    BY <2>1, <2>2, <2>3
  <2>5. QED
    BY <2>4, PrefixElements
<1>3. ASSUME NEW s \in Seq(STRING), NEW t \in Seq(STRING), IsPrefix(s, t), IsPrefix(t, s)
      PROVE  s = t
  <2>1. Len(s) \in Nat /\ Len(t) \in Nat
    OBVIOUS
  <2>2. Len(s) <= Len(t) /\ \A i \in 1..Len(s) : s[i] = t[i]
    BY <1>3, PrefixElements
  <2>3. Len(t) <= Len(s)
    BY <1>3, PrefixElements
  <2>4. QED
    BY <2>1, <2>2, <2>3, SeqEqual
<1>4. QED
  BY <1>1, <1>2, <1>3

\* A path is its directory's and a name; what is a prefix of it is the path,
\* or a prefix of its directory's.
LEMMA FrontAndLast ==
    ASSUME NEW p \in Seq(STRING), p # <<>>
    PROVE  /\ Front(p) \in Seq(STRING) /\ Last(p) \in STRING /\ Append(Front(p), Last(p)) = p
           /\ IsPrefix(Front(p), p) /\ ~IsPrefix(p, Front(p))
           /\ \A r \in Seq(STRING) : IsPrefix(r, p) => r = p \/ IsPrefix(r, Front(p))
<1> DEFINE n == Len(p)
           f == Front(p)
<1>1. /\ f \in Seq(STRING) /\ Len(f) = n - 1 /\ n \in Nat \ {0} /\ Last(p) \in STRING
      /\ \A i \in 1..(n - 1) : f[i] = p[i]
  BY FrontElements
<1>2. p[n] = Last(p)
  BY DEF Last
<1> HIDE DEF f, n
<1>3. Append(f, Last(p)) = p
  <2>1. Append(f, Last(p)) \in Seq(STRING) /\ Len(Append(f, Last(p))) = n
    BY <1>1
  <2>2. ASSUME NEW i \in 1..n PROVE Append(f, Last(p))[i] = p[i]
    <3>1. CASE i = n
      BY <1>1, <1>2, <3>1
    <3>2. CASE i # n
      <4>1. i \in 1..(n - 1)
        BY <1>1, <3>2
      <4>2. QED
        BY <1>1, <4>1
    <3>3. QED
      BY <3>1, <3>2
  <2>3. n = Len(p)
    BY DEF n
  <2>4. QED
    BY <2>1, <2>2, <2>3, SeqEqual
<1>4. IsPrefix(f, p)
  <2>1. Len(f) <= Len(p) /\ \A i \in 1..Len(f) : f[i] = p[i]
    BY <1>1 DEF n
  <2>2. QED
    BY <1>1, <2>1, PrefixElements
<1>5. ~IsPrefix(p, f)
  <2>1. ~(Len(p) <= Len(f))
    BY <1>1 DEF n
  <2>2. QED
    BY <1>1, <2>1, PrefixElements
<1>6. ASSUME NEW r \in Seq(STRING), IsPrefix(r, p), r # p PROVE IsPrefix(r, f)
  <2>1. Len(r) \in Nat /\ Len(r) <= n /\ \A i \in 1..Len(r) : r[i] = p[i]
    BY <1>6, PrefixElements DEF n
  <2>2. Len(r) # n
    BY <1>6, <2>1, SeqEqual DEF n
  <2>3. Len(r) <= Len(f) /\ \A i \in 1..Len(r) : r[i] = f[i]
    BY <1>1, <2>1, <2>2
  <2>4. QED
    BY <1>1, <2>3, PrefixElements
<1>7. QED
  BY <1>1, <1>3, <1>4, <1>5, <1>6 DEF f

\* What holds of a path's beginnings goes from each to the next.
LEMMA Beginnings ==
    ASSUME NEW f \in Seq(STRING), NEW k \in 1..Len(f)
    PROVE  /\ SubSeq(f, 1, k) \in Seq(STRING) /\ SubSeq(f, 1, k - 1) \in Seq(STRING)
           /\ SubSeq(f, 1, k) # <<>> /\ Front(SubSeq(f, 1, k)) = SubSeq(f, 1, k - 1)
           /\ Append(SubSeq(f, 1, k - 1), f[k]) = SubSeq(f, 1, k)
           /\ IsPrefix(SubSeq(f, 1, k), f) /\ f[k] \in STRING
<1> DEFINE b(j) == SubSeq(f, 1, j)
<1>1. Len(f) \in Nat /\ k \in Nat \ {0} /\ k <= Len(f) /\ f[k] \in STRING
  OBVIOUS
<1>2. ASSUME NEW j \in Nat, j <= Len(f)
      PROVE  b(j) \in Seq(STRING) /\ Len(b(j)) = j /\ \A i \in 1..j : b(j)[i] = f[i]
  BY <1>1, <1>2
<1>3. k - 1 \in Nat /\ k - 1 <= Len(f)
  BY <1>1
<1> HIDE DEF b
<1>4. b(k) \in Seq(STRING) /\ Len(b(k)) = k /\ \A i \in 1..k : b(k)[i] = f[i]
  BY <1>1, <1>2
<1>5. /\ b(k - 1) \in Seq(STRING) /\ Len(b(k - 1)) = k - 1
      /\ \A i \in 1..(k - 1) : b(k - 1)[i] = f[i]
  BY <1>2, <1>3
<1>6. b(k) # <<>>
  BY <1>1, <1>4
<1>7. Front(b(k)) = b(k - 1)
  <2>1. /\ Front(b(k)) \in Seq(STRING) /\ Len(Front(b(k))) = k - 1
        /\ \A i \in 1..(k - 1) : Front(b(k))[i] = b(k)[i]
    BY <1>4, <1>6, FrontElements
  <2>2. ASSUME NEW i \in 1..(k - 1) PROVE Front(b(k))[i] = b(k - 1)[i]
    <3>1. i \in 1..k
      BY <1>1
    <3>2. b(k)[i] = f[i] /\ b(k - 1)[i] = f[i]
      BY <1>4, <1>5, <3>1
    <3>3. QED
      BY <2>1, <3>2
  <2>3. QED
    BY <1>5, <2>1, <2>2, SeqEqual
<1>8. Last(b(k)) = f[k]
  BY <1>1, <1>4 DEF Last
<1>9. Append(b(k - 1), f[k]) = b(k)
  BY <1>4, <1>6, <1>7, <1>8, FrontAndLast
<1>10. IsPrefix(b(k), f)
  BY <1>1, <1>4, PrefixElements
<1>11. QED
  BY <1>1, <1>4, <1>5, <1>6, <1>7, <1>9, <1>10 DEF b

-----------------------------------------------------------------------------
(* realpath.                                                               *)

\* What realpath may return: a path that is there, or that it failed.
Found == {p \in Places : At(p) \notin {"missing", "link"}} \cup {Nowhere}

\* One round of realpath: the last name of s after the others.
Round(path, g, s) == IF s = {} THEN <<>> ELSE Into(g[s \ {Max(s)}], path[Max(s)])

\* Walking down a path is the iteration the fold stands for.
LEMMA WalkExists ==
    ASSUME NEW path \in Seq(STRING)
    PROVE  \E g : g = [s \in SUBSET (DOMAIN path) |-> Round(path, g, s)]
<1> DEFINE D == SUBSET (DOMAIN path)
           n == Len(path)
           Good(g, k) == \A s \in D : Cardinality(s) <= k => g[s] = Round(path, g, s)
           Bad == {k \in Nat : ~ \E g : g = [s \in D |-> g[s]] /\ Good(g, k)}
<1>1. n \in Nat /\ DOMAIN path = 1..n
  OBVIOUS
<1>2. ASSUME NEW s \in D
      PROVE  /\ IsFiniteSet(s) /\ Cardinality(s) \in Nat /\ Cardinality(s) <= n
             /\ s # {} => Max(s) \in s /\ s \ {Max(s)} \in D
                          /\ Cardinality(s \ {Max(s)}) = Cardinality(s) - 1
             /\ Cardinality(s) = 0 <=> s = {}
  <2>1. IsFiniteSet(1..n) /\ Cardinality(1..n) = n
    <3>1. n \in Int /\ 1 \in Int
      BY <1>1
    <3>2. IsFiniteSet(1..n) /\ Cardinality(1..n) = IF 1 > n THEN 0 ELSE n - 1 + 1
      <4> HIDE DEF n
      <4>1. QED
        BY <3>1, FS_Interval
    <3>3. QED
      BY <1>1, <3>2
  <2>2. IsFiniteSet(s) /\ Cardinality(s) <= n
    BY <1>1, <2>1, FS_Subset
  <2>3. Cardinality(s) \in Nat /\ (Cardinality(s) = 0 <=> s = {})
    BY <2>2, FS_CardinalityType, FS_EmptySet
  <2>4. s # {} => Max(s) \in s
    BY <1>1, GreatestNumber
  <2>5. s # {} => Cardinality(s \ {Max(s)}) = Cardinality(s) - 1
    BY <2>2, <2>4, FS_RemoveElement
  <2>6. QED
    BY <2>2, <2>3, <2>4, <2>5
<1>3. \E g : g = [s \in D |-> g[s]] /\ Good(g, 0)
  <2> DEFINE g == [s \in D |-> <<>>]
  <2>1. ASSUME NEW s \in D, Cardinality(s) <= 0 PROVE g[s] = Round(path, g, s)
    <3>1. s = {}
      <4> HIDE DEF D
      <4>1. Cardinality(s) \in Nat /\ (Cardinality(s) = 0 => s = {})
        BY <1>2
      <4>2. QED
        BY <2>1, <4>1
    <3>2. QED
      BY <3>1 DEF Round
  <2>2. g = [s \in D |-> g[s]]
    OBVIOUS
  <2>3. Good(g, 0)
    <3> HIDE DEF D, g
    <3>1. QED
      BY <2>1
  <2>4. QED
    BY <2>2, <2>3
<1>4. ASSUME NEW k \in Nat, NEW g, g = [s \in D |-> g[s]], Good(g, k)
      PROVE  \E h : h = [s \in D |-> h[s]] /\ Good(h, k + 1)
  <2> DEFINE h == [s \in D |-> IF Cardinality(s) <= k THEN g[s] ELSE Round(path, g, s)]
  <2>1. ASSUME NEW s \in D, Cardinality(s) <= k + 1 PROVE h[s] = Round(path, g, s)
    BY <1>2, <1>4, <2>1
  <2>2. ASSUME NEW s \in D, Cardinality(s) <= k + 1 PROVE Round(path, h, s) = Round(path, g, s)
    <3>1. CASE s = {}
      BY <3>1 DEF Round
    <3>2. CASE s # {}
      <4>1. s \ {Max(s)} \in D /\ Cardinality(s \ {Max(s)}) <= k
        <5> HIDE DEF D
        <5>1. /\ Cardinality(s) \in Nat /\ s \ {Max(s)} \in D
              /\ Cardinality(s \ {Max(s)}) = Cardinality(s) - 1
          BY <1>2, <3>2
        <5>2. QED
          BY <2>2, <5>1
      <4>2. h[s \ {Max(s)}] = g[s \ {Max(s)}]
        BY <4>1
      <4>3. QED
        BY <4>2 DEF Round
    <3>3. QED
      BY <3>1, <3>2
  <2>3. h = [s \in D |-> h[s]]
    OBVIOUS
  <2> HIDE DEF h
  <2>4. Good(h, k + 1)
    BY <2>1, <2>2
  <2>5. QED
    BY <2>3, <2>4
<1>5. Bad = {}
  <2> SUFFICES ASSUME Bad # {} PROVE FALSE
    OBVIOUS
  <2>1. PICK m \in Bad : \A k \in Bad : m <= k
    <3> HIDE DEF Good
    <3>1. Bad \in SUBSET Nat
      OBVIOUS
    <3>2. QED
      BY <3>1, LeastNumber
  <2>2. m \in Nat /\ m # 0
    BY <1>3
  <2>3. m - 1 \in Nat /\ m - 1 \notin Bad
    <3>1. m - 1 \in Nat /\ ~ (m <= m - 1)
      BY <2>2
    <3>2. QED
      <4> HIDE DEF Bad
      <4>1. QED
        BY <2>1, <3>1
  <2>4. PICK g : g = [s \in D |-> g[s]] /\ Good(g, m - 1)
    <3> HIDE DEF Good, D
    <3>1. QED
      BY <2>3
  <2>5. \E h : h = [s \in D |-> h[s]] /\ Good(h, (m - 1) + 1)
    <3> HIDE DEF Good
    <3>1. QED
      BY <1>4, <2>3, <2>4
  <2>6. (m - 1) + 1 = m
    BY <2>2
  <2>7. QED
    BY <2>1, <2>5, <2>6
<1>6. PICK g : g = [s \in D |-> g[s]] /\ Good(g, n)
  BY <1>1, <1>5
<1>7. \A s \in D : g[s] = Round(path, g, s)
  BY <1>2, <1>6
<1>8. QED
  BY <1>6, <1>7
\* Walking down a path, name by name.
LEMMA WalkSteps ==
    ASSUME NEW path \in Seq(STRING)
    PROVE  \E v : /\ v[0] = <<>> /\ Walk(path) = v[Len(path)]
                  /\ \A k \in 1..Len(path) : v[k] = Into(v[k - 1], path[k])
<1> DEFINE D == SUBSET (DOMAIN path)
           n == Len(path)
           W == CHOOSE g : g = [s \in D |-> Round(path, g, s)]
           v == [k \in 0..n |-> W[1..k]]
<1>1. n \in Nat /\ DOMAIN path = 1..n
  OBVIOUS
<1>2. Walk(path) = W[DOMAIN path]
  BY DEF Walk, FoldLeft, MapThenFoldSet, Round
<1>3. W = [s \in D |-> Round(path, W, s)]
  BY WalkExists
<1> HIDE DEF W, n
<1>4. ASSUME NEW k \in 0..n PROVE v[k] = Round(path, W, 1..k)
  <2>1. 1..k \in D
    BY <1>1
  <2>2. QED
    BY <1>3, <2>1
<1>5. v[0] = <<>>
  <2>1. 1..0 = {} /\ 0 \in 0..n
    BY <1>1
  <2>2. QED
    BY <1>4, <2>1 DEF Round
<1>6. ASSUME NEW k \in 1..n PROVE v[k] = Into(v[k - 1], path[k])
  <2>1. k \in Nat \ {0} /\ k \in 0..n /\ k - 1 \in 0..n /\ 1..k # {}
    BY <1>1
  <2>2. Max(1..k) = k
    <3>1. Max(1..k) \in 1..k
      BY <2>1, GreatestNumber
    <3>2. \E x \in 1..k : \A y \in 1..k : x >= y
      BY <2>1
    <3>3. \A y \in 1..k : Max(1..k) >= y
      BY <3>2 DEF Max
    <3>4. QED
      BY <2>1, <3>1, <3>3
  <2>3. (1..k) \ {k} = 1..(k - 1)
    BY <2>1
  <2>4. v[k] = Into(W[(1..k) \ {Max(1..k)}], path[Max(1..k)])
    BY <1>4, <2>1 DEF Round
  <2>5. v[k - 1] = W[1..(k - 1)]
    BY <2>1
  <2>6. QED
    BY <2>2, <2>3, <2>4, <2>5
<1>7. Walk(path) = v[n]
  <2>1. n \in 0..n
    BY <1>1
  <2>2. QED
    BY <1>1, <1>2, <2>1
<1>8. QED
  <2> HIDE DEF v
  <2>1. QED
    BY <1>5, <1>6, <1>7 DEF n

\* What is there is at a place; nothing is nowhere.
LEMMA ThereIsAPlace ==
    ASSUME FsTypeOK
    PROVE  /\ \A p : At(p) # "missing" => p \in DOMAIN tree /\ p \in Places /\ p \in Seq(STRING)
           /\ At(Nowhere) = "missing" /\ ~IsDir(Nowhere)
<1>1. DOMAIN tree \subseteq Places \ {Nowhere}
  BY DEF FsTypeOK
<1>2. \A p \in Places : p \in Seq(STRING)
  BY DEF Places
<1>3. QED
  BY <1>1, <1>2 DEF At, IsDir

\* A link leads to a place that is no link.
LEMMA LinkEnds ==
    ASSUME FsTypeOK, TreeInv, NEW p, At(p) = "link"
    PROVE  LeadsTo[p] \in Places \ {Nowhere} /\ At(LeadsTo[p]) # "link"
<1>1. p \in DOMAIN LeadsTo
  BY ThereIsAPlace DEF TreeInv
<1>2. LeadsTo[p] \in Places \ {Nowhere}
  BY <1>1, FsAssumption DEF FsAssumption
<1>3. ASSUME At(LeadsTo[p]) = "link" PROVE FALSE
  <2>1. LeadsTo[p] \in DOMAIN LeadsTo /\ LeadsTo[p] \in Seq(STRING)
    BY <1>3, ThereIsAPlace DEF TreeInv
  <2>2. ~IsPrefix(LeadsTo[p], LeadsTo[p])
    BY <1>1, <2>1, FsAssumption DEF FsAssumption
  <2>3. QED
    BY <2>1, <2>2, PrefixFacts
<1>4. QED
  BY <1>2, <1>3

\* One component leads to something that is there, or nowhere.
LEMMA IntoFound ==
    ASSUME FsTypeOK, TreeInv, NEW dir, NEW name
    PROVE  Into(dir, name) \in Found
<1>1. CASE ~IsDir(dir)
  BY <1>1 DEF Into, Found
<1>2. CASE IsDir(dir) /\ name = "."
  BY <1>2, ThereIsAPlace DEF Into, Found, IsDir
<1>3. CASE IsDir(dir) /\ name = ".."
  <2>1. dir \in DOMAIN tree /\ At(dir) # "missing"
    BY <1>3, ThereIsAPlace DEF IsDir
  <2>2. IsDir(Parent(dir))
    BY <2>1 DEF TreeInv
  <2>3. Into(dir, name) = Parent(dir)
    BY <1>3 DEF Into
  <2>4. QED
    BY <2>2, <2>3, ThereIsAPlace DEF Found, IsDir
<1>4. CASE IsDir(dir) /\ name \notin {".", ".."}
  <2> DEFINE p == Append(dir, name)
             q == IF At(p) = "link" THEN LeadsTo[p] ELSE p
  <2>1. Into(dir, name) = IF At(q) # "missing" THEN q ELSE Nowhere
    BY <1>4 DEF Into
  <2>2. At(q) # "link"
    BY LinkEnds
  <2> HIDE DEF q
  <2>3. QED
    BY <2>1, <2>2, ThereIsAPlace DEF Found
<1>5. QED
  BY <1>1, <1>2, <1>3, <1>4

\* realpath returns something that is there, or fails.
LEMMA RealPathFound ==
    ASSUME FsTypeOK, TreeInv, NEW path \in Seq(STRING)
    PROVE  RealPath(path) \in Found
<1> DEFINE s == Root \o path
           n == Len(s)
<1>1. Root \in Seq(STRING) /\ Root # <<>>
  BY FsAssumption DEF FsAssumption, Places
<1>2. s \in Seq(STRING) /\ n \in 1..n
  BY <1>1
<1> HIDE DEF s, n
<1>3. PICK v : Walk(s) = v[n] /\ \A k \in 1..n : v[k] = Into(v[k - 1], s[k])
  BY <1>2, WalkSteps DEF n
<1>4. Walk(s) = Into(v[n - 1], s[n])
  BY <1>2, <1>3
<1>5. QED
  BY <1>4, IntoFound DEF RealPath, s

\* What is there has only directories above it, and no link.
LEMMA DirsAbove ==
    ASSUME FsTypeOK, \A q \in DOMAIN tree : At(q) # "missing" => IsDir(Parent(q)),
           NEW p, At(p) # "missing"
    PROVE  /\ \A r \in Seq(STRING) : IsPrefix(r, p) /\ r # p => IsDir(r)
           /\ At(p) # "link" => Clear(p)
<1> DEFINE Bad == {k \in Nat : \E q \in Seq(STRING) :
                     Len(q) = k /\ At(q) # "missing"
                     /\ \E r \in Seq(STRING) : IsPrefix(r, q) /\ r # q /\ ~IsDir(r)}
<1>1. p \in Seq(STRING)
  BY ThereIsAPlace
<1>2. Bad = {}
  <2> SUFFICES ASSUME Bad # {} PROVE FALSE
    OBVIOUS
  <2>1. PICK k \in Bad : \A j \in Bad : k <= j
    <3>1. Bad \in SUBSET Nat
      OBVIOUS
    <3> HIDE DEF Bad
    <3>2. QED
      BY <3>1, LeastNumber
  <2>2. PICK q \in Seq(STRING), r \in Seq(STRING) :
          Len(q) = k /\ At(q) # "missing" /\ IsPrefix(r, q) /\ r # q /\ ~IsDir(r)
    OBVIOUS
  <2>3. q # <<>>
    <3>1. ASSUME q = <<>> PROVE FALSE
      <4>1. Len(r) \in Nat /\ Len(r) <= Len(q) /\ Len(q) = 0
        BY <2>2, <3>1, PrefixElements
      <4>2. r = <<>>
        BY <4>1
      <4>3. QED
        BY <2>2, <3>1, <4>2
    <3>2. QED
      BY <3>1
  <2>4. /\ Front(q) \in Seq(STRING) /\ Len(Front(q)) = k - 1 /\ k \in Nat \ {0}
        /\ IsPrefix(r, Front(q))
    BY <2>2, <2>3, FrontElements, FrontAndLast
  <2>5. IsDir(Front(q))
    BY <2>2, <2>3, ThereIsAPlace DEF Parent
  <2>6. r # Front(q) /\ At(Front(q)) # "missing"
    BY <2>2, <2>5 DEF IsDir
  <2>7. k - 1 \in Bad
    BY <2>2, <2>4, <2>6
  <2>8. k - 1 \in Nat /\ ~(k <= k - 1)
    BY <2>4
  <2> HIDE DEF Bad
  <2>9. QED
    BY <2>1, <2>7, <2>8
<1>3. \A r \in Seq(STRING) : IsPrefix(r, p) /\ r # p => IsDir(r)
  <2>1. Len(p) \in Nat
    BY <1>1
  <2>2. QED
    BY <1>1, <1>2, <2>1
<1>4. QED
  BY <1>3 DEF Clear, IsDir

\* A path without links is where it says, or it leads nowhere.
LEMMA WalkClear ==
    ASSUME FsTypeOK, TreeInv, NEW f \in Places, Clear(f)
    PROVE  Walk(f) \in {f, Nowhere} /\ (IsDir(f) => Walk(f) = f)
<1> DEFINE n == Len(f)
           b(k) == SubSeq(f, 1, k)
<1>1. f \in Seq(STRING) /\ n \in Nat /\ \A k \in 1..n : f[k] \notin {".", ".."}
  BY DEF Places
<1>2. PICK v : /\ v[0] = <<>> /\ Walk(f) = v[n]
               /\ \A k \in 1..n : v[k] = Into(v[k - 1], f[k])
  BY <1>1, WalkSteps
<1>3. b(n) = f /\ b(0) = <<>>
  BY <1>1, SubSeqFull
<1> HIDE DEF n, b
<1>4. ASSUME NEW k \in 1..n
      PROVE  /\ b(k) \in Seq(STRING) /\ IsPrefix(b(k), f)
             /\ Append(b(k - 1), f[k]) = b(k) /\ b(k) # <<>> /\ Front(b(k)) = b(k - 1)
  BY <1>1, <1>4, Beginnings DEF n, b
<1>5. ASSUME NEW k \in 1..n, v[k - 1] \in {b(k - 1), Nowhere}
      PROVE  /\ v[k] \in {b(k), Nowhere}
             /\ v[k - 1] = b(k - 1) /\ IsDir(b(k - 1)) /\ At(b(k)) # "missing" => v[k] = b(k)
  <2>1. v[k] = Into(v[k - 1], f[k]) /\ f[k] \notin {".", ".."}
    BY <1>1, <1>2
  <2>2. CASE ~IsDir(v[k - 1])
    <3>1. v[k] = Nowhere
      BY <2>1, <2>2 DEF Into
    <3>2. QED
      BY <2>2, <3>1
  <2>3. CASE IsDir(v[k - 1])
    <3>1. v[k - 1] = b(k - 1)
      BY <1>5, <2>3, ThereIsAPlace
    <3>2. At(b(k)) # "link"
      BY <1>4 DEF Clear
    <3>3. v[k] = IF At(b(k)) # "missing" THEN b(k) ELSE Nowhere
      BY <1>4, <2>1, <2>3, <3>1, <3>2 DEF Into
    <3>4. QED
      BY <3>1, <3>3
  <2>4. QED
    BY <2>2, <2>3
<1>6. \A k \in 0..n : v[k] \in {b(k), Nowhere}
  <2> DEFINE Bad == {k \in 0..n : v[k] \notin {b(k), Nowhere}}
  <2> SUFFICES ASSUME Bad # {} PROVE FALSE
    OBVIOUS
  <2>1. PICK k \in Bad : \A j \in Bad : k <= j
    <3>1. Bad \in SUBSET Nat
      BY <1>1 DEF n
    <3> HIDE DEF Bad
    <3>2. QED
      BY <3>1, LeastNumber
  <2>2. k # 0
    BY <1>2, <1>3
  <2>3. k \in 1..n /\ k - 1 \in 0..n /\ ~(k <= k - 1)
    BY <1>1, <2>2 DEF n
  <2>4. k - 1 \notin Bad
    <3> HIDE DEF Bad
    <3>1. QED
      BY <2>1, <2>3
  <2>5. v[k] \in {b(k), Nowhere}
    BY <1>5, <2>3, <2>4
  <2>6. QED
    BY <2>5
<1>7. ASSUME IsDir(f) PROVE Walk(f) = f
  <2>1. ASSUME NEW k \in 1..n PROVE IsDir(b(k - 1)) /\ At(b(k)) # "missing"
    <3>1. IsDir(b(k))
      BY <1>4, <1>7, DirsAbove DEF IsDir, TreeInv
    <3>2. IsDir(Parent(b(k)))
      BY <3>1, ThereIsAPlace DEF TreeInv, IsDir
    <3>3. QED
      BY <1>4, <3>1, <3>2 DEF Parent, IsDir
  <2> DEFINE Bad == {k \in 0..n : v[k] # b(k)}
  <2>2. Bad = {}
    <3> SUFFICES ASSUME Bad # {} PROVE FALSE
      OBVIOUS
    <3>1. PICK k \in Bad : \A j \in Bad : k <= j
      <4>1. Bad \in SUBSET Nat
        BY <1>1 DEF n
      <4> HIDE DEF Bad
      <4>2. QED
        BY <4>1, LeastNumber
    <3>2. k # 0
      BY <1>2, <1>3
    <3>3. k \in 1..n /\ k - 1 \in 0..n /\ ~(k <= k - 1)
      BY <1>1, <3>2 DEF n
    <3>4. k - 1 \notin Bad
      <4> HIDE DEF Bad
      <4>1. QED
        BY <3>1, <3>3
    <3>5. v[k] = b(k)
      BY <1>5, <2>1, <3>3, <3>4
    <3>6. QED
      BY <3>5
  <2>3. n \in 0..n
    BY <1>1 DEF n
  <2>4. v[n] = b(n)
    BY <2>2, <2>3
  <2>5. QED
    BY <1>2, <1>3, <2>4
<1>8. QED
  <2>1. n \in 0..n
    BY <1>1 DEF n
  <2>2. QED
    BY <1>2, <1>3, <1>6, <1>7, <2>1

\* A directory's name for something is a place.
LEMMA NamedPlace ==
    ASSUME NEW d \in Places, NEW name \in STRING, name \notin {".", ".."}
    PROVE  Append(d, name) \in Places /\ Append(d, name) # <<>>
           /\ Front(Append(d, name)) = d
<1> DEFINE p == Append(d, name)
<1>1. d \in Seq(STRING) /\ Len(d) \in Nat /\ \A i \in 1..Len(d) : d[i] \notin {".", ".."}
  BY DEF Places
<1>2. /\ p \in Seq(STRING) /\ Len(p) = Len(d) + 1 /\ p # <<>>
      /\ \A i \in 1..Len(d) : p[i] = d[i]
      /\ p[Len(d) + 1] = name
  BY <1>1
<1> HIDE DEF p
<1>3. \A i \in DOMAIN p : i \in 1..Len(d) \/ i = Len(d) + 1
  BY <1>1, <1>2
<1>4. \A i \in DOMAIN p : p[i] \notin {".", ".."}
  BY <1>1, <1>2, <1>3
<1>5. Front(p) = d
  <2>1. /\ Front(p) \in Seq(STRING) /\ Len(Front(p)) = Len(p) - 1
        /\ \A i \in 1..(Len(p) - 1) : Front(p)[i] = p[i]
    BY <1>2, FrontElements
  <2>2. Len(p) - 1 = Len(d)
    BY <1>1, <1>2
  <2>3. \A i \in 1..Len(d) : Front(p)[i] = d[i]
    BY <1>2, <2>1, <2>2
  <2>4. QED
    BY <1>1, <2>1, <2>2, <2>3, SeqEqual
<1>6. QED
  BY <1>2, <1>4, <1>5 DEF p, Places

\* Where a path ends is a place, and no link is at the place it leads to.
LEMMA PlaceType ==
    ASSUME FsTypeOK, TreeInv, NEW a \in Places
    PROVE  /\ Spot(a) \in Places \cup {Nowhere} /\ Place(a) \in Places \cup {Nowhere}
           /\ At(Place(a)) # "link"
<1>1. Spot(a) \in Places \cup {Nowhere}
  <2>1. CASE a = <<>> \/ ~IsDir(Walk(Front(a)))
    BY <2>1 DEF Spot
  <2>2. CASE a # <<>> /\ IsDir(Walk(Front(a)))
    <3>1. Spot(a) = Append(Walk(Front(a)), Last(a))
      BY <2>2 DEF Spot
    <3>2. Walk(Front(a)) \in Places
      BY <2>2, ThereIsAPlace DEF IsDir
    <3>3. Last(a) \in STRING /\ Last(a) \notin {".", ".."}
      <4>1. a \in Seq(STRING) /\ \A i \in DOMAIN a : a[i] \notin {".", ".."}
        BY DEF Places
      <4>2. Last(a) \in STRING /\ Len(a) \in DOMAIN a
        BY <2>2, <4>1, FrontElements
      <4>3. QED
        BY <4>1, <4>2 DEF Last
    <3>4. QED
      BY <3>1, <3>2, <3>3, NamedPlace
  <2>3. QED
    BY <2>1, <2>2
<1>2. CASE At(Spot(a)) = "link"
  BY <1>1, <1>2, LinkEnds DEF Place
<1>3. CASE At(Spot(a)) # "link"
  BY <1>1, <1>3 DEF Place
<1>4. QED
  BY <1>1, <1>2, <1>3

\* A path without links leads to the place it says, when its directory is
\* there, or nowhere.
LEMMA PlaceClear ==
    ASSUME FsTypeOK, TreeInv, NEW a \in Places, Clear(a)
    PROVE  /\ Spot(a) \in {a, Nowhere} /\ Place(a) \in {a, Nowhere}
           /\ At(a) # "missing" => Place(a) = a
<1>1. a \in Seq(STRING) /\ At(a) # "link"
  <2>1. a \in Seq(STRING)
    BY DEF Places
  <2>2. QED
    BY <2>1, PrefixFacts DEF Clear
<1>2. /\ Spot(a) \in {a, Nowhere}
      /\ At(a) # "missing" => Spot(a) = a
  <2>1. CASE a = <<>>
    BY <2>1 DEF Spot
  <2>2. CASE a # <<>>
    <3> DEFINE f == Front(a)
    <3>1. /\ f \in Seq(STRING) /\ Append(f, Last(a)) = a
          /\ \A r \in Seq(STRING) : IsPrefix(r, f) => IsPrefix(r, a)
      BY <1>1, <2>2, FrontAndLast, PrefixFacts
    <3>2. f \in Places
      <4>1. Len(f) = Len(a) - 1 /\ \A i \in 1..(Len(a) - 1) : f[i] = a[i]
        BY <1>1, <2>2, FrontElements
      <4>2. \A i \in DOMAIN a : a[i] \notin {".", ".."}
        BY DEF Places
      <4> HIDE DEF f
      <4>3. DOMAIN f = 1..(Len(a) - 1) /\ DOMAIN a = 1..Len(a) /\ Len(a) \in Nat
        BY <1>1, <3>1, <4>1
      <4>4. \A i \in DOMAIN f : f[i] \notin {".", ".."}
        BY <4>1, <4>2, <4>3
      <4>5. QED
        BY <3>1, <4>4 DEF Places
    <3>3. Clear(f)
      BY <3>1 DEF Clear
    <3>4. Walk(f) \in {f, Nowhere} /\ (IsDir(f) => Walk(f) = f)
      BY <3>2, <3>3, WalkClear
    <3>5. At(a) # "missing" => IsDir(f)
      BY <2>2, ThereIsAPlace DEF TreeInv, Parent
    <3>6. Spot(a) = IF IsDir(Walk(f)) THEN Append(Walk(f), Last(a)) ELSE Nowhere
      BY <2>2 DEF Spot
    <3> HIDE DEF f
    <3>7. QED
      BY <3>1, <3>4, <3>5, <3>6, ThereIsAPlace
  <2>3. QED
    BY <2>1, <2>2
<1>3. Place(a) = Spot(a)
  BY <1>1, <1>2, ThereIsAPlace DEF Place
<1>4. QED
  BY <1>2, <1>3

\* The path an operation goes on with is a place inside the sandbox, without
\* links but for one at its end; unless it is to be created, something other
\* than a link is there, or it is the sandbox.
LEMMA ResolvedInside ==
    ASSUME FsTypeOK, TreeInv, NEW path \in Seq(STRING), NEW create \in BOOLEAN,
           NEW r, r = fs_resolve(path, create), r # Nowhere
    PROVE  /\ r \in Places /\ IsPrefix(Root, r)
           /\ At(r) # "link" => Clear(r)
           /\ ~create => At(r) # "missing" \/ r = Root
<1> DEFINE p == IF create THEN NewPath(path) ELSE RealPath(path)
<1>1. Root \in Places /\ Root \in Seq(STRING) /\ Root # <<>> /\ Len(Root) \in Nat \ {0}
  BY FsAssumption DEF FsAssumption, Places
<1>2. CASE path = <<>>
  <2>1. r = Root
    BY <1>2 DEF fs_resolve
  <2>2. IsPrefix(Root, Root) /\ Clear(Root)
    BY <1>1, PrefixFacts DEF TreeInv
  <2>3. QED
    BY <1>1, <2>1, <2>2
<1>3. CASE path # <<>>
  <2>1. p # Nowhere /\ r = p /\ StartsWithRoot(p) /\ NameEnds(p)
    BY <1>3 DEF fs_resolve
  <2>2. /\ RealPath(path) \in Found /\ RealPath(Front(path)) \in Found
        /\ Last(path) \in STRING
    BY <1>3, RealPathFound, FrontElements
  <2>3. /\ p \in Places /\ (At(p) # "link" => Clear(p))
        /\ ~create => At(p) # "missing"
    <3>1. CASE create
      <4> DEFINE d == RealPath(Front(path))
      <4>1. p = Append(d, Last(path)) /\ d # Nowhere /\ Last(path) \notin {".", ".."}
        BY <2>1, <3>1 DEF NewPath
      <4>2. d \in Places /\ At(d) \notin {"missing", "link"}
        BY <2>2, <4>1 DEF Found
      <4>3. Clear(d)
        BY <4>2, DirsAbove DEF TreeInv
      <4> HIDE DEF d, p
      <4>4. p \in Places /\ p # <<>> /\ Front(p) = d
        BY <2>2, <4>1, <4>2, NamedPlace
      <4>5. \A x \in Seq(STRING) : IsPrefix(x, p) => x = p \/ IsPrefix(x, d)
        <5>1. p \in Seq(STRING)
          BY <4>4 DEF Places
        <5>2. QED
          BY <4>4, <5>1, FrontAndLast
      <4>6. QED
        BY <3>1, <4>3, <4>4, <4>5 DEF Clear
    <3>2. CASE ~create
      <4>1. p \in Places /\ At(p) \notin {"missing", "link"}
        BY <2>1, <2>2, <3>2 DEF Found
      <4> HIDE DEF p
      <4>2. QED
        BY <4>1, DirsAbove DEF TreeInv
    <3>3. QED
      BY <3>1, <3>2
  <2> HIDE DEF p
  <2>4. p \in Seq(STRING) /\ Len(p) \in Nat
    BY <2>3 DEF Places
  <2>5. /\ Len(Root) <= Len(p)
        /\ \A i \in 1..(Len(Root) - 1) : p[i] = Root[i]
        /\ p[Len(Root)] = Root[Len(Root)]
    BY <2>1, <2>4 DEF StartsWithRoot, NameEnds, Last
  <2>6. \A i \in 1..Len(Root) : i \in 1..(Len(Root) - 1) \/ i = Len(Root)
    BY <1>1
  <2>7. \A i \in 1..Len(Root) : Root[i] = p[i]
    BY <2>5, <2>6
  <2>8. IsPrefix(Root, p)
    BY <1>1, <2>4, <2>5, <2>7, PrefixElements
  <2>9. QED
    BY <2>1, <2>3, <2>8
<1>4. QED
  BY <1>2, <1>3

-----------------------------------------------------------------------------
(* What a thread's step does to the thread.                                *)

OpEnds(o) ==
    /\ op[o].pc \in {"resolve", "stat", "ask", "open", "remove", "read", "list"}
    /\ op'[o] = Finished(o) /\ tree' = tree

Resolves(o) ==
    \E r : /\ r = fs_resolve(op[o].path, op[o].kind = "create") /\ r # Nowhere
           /\ op[o].pc = "resolve" /\ op[o].path \in Seq(STRING) /\ op[o].kind \in Kinds
           /\ op'[o].pc = AfterResolve[op[o].kind] /\ op'[o].kind = op[o].kind
           /\ op'[o].abs = r /\ op'[o].did = op[o].did
           /\ op'[o].doubts = IF At(r) = "link" THEN {"link"} ELSE {}
           /\ op'[o].said = IF op[o].kind \in {"modify", "delete"} THEN "none" ELSE op[o].said
           /\ tree' = tree

Keeps(o) ==
    /\ op'[o].kind = op[o].kind /\ op'[o].abs = op[o].abs /\ op'[o].did = op[o].did
    /\ tree' = tree

Stats(o) ==
    /\ op[o].pc = "stat" /\ op'[o].pc = "ask" /\ op'[o].said = "none" /\ Keeps(o)
    /\ op'[o].doubts = op[o].doubts \ {"request"} /\ ~Exists(op[o].abs)

OpAnswers(o) ==
    /\ op[o].pc = "ask" /\ op'[o].pc = "ask" /\ Keeps(o) /\ op'[o].doubts = op[o].doubts
    /\ op[o].said = "none" /\ op'[o].said \in {"yes", "no"} /\ \A q \in FsOps \ {o} : op'[q] = op[q]

Approves(o) ==
    /\ op[o].pc = "ask" /\ op'[o].pc \in {"remove", "open"} /\ Keeps(o)
    /\ op'[o].doubts = op[o].doubts /\ op[o].said = "yes" /\ op'[o].said = "yes"

Opens(o) ==
    LET p == Place(op[o].abs)
    IN  /\ op[o].pc = "open" /\ op'[o].pc = "write" /\ op'[o].said = op[o].said /\ op'[o].did
        /\ op'[o].abs = p /\ op'[o].doubts = op[o].doubts \ {"request"} /\ op'[o].linked
        /\ p # Nowhere /\ ~IsDir(p) /\ IsDir(Parent(p))
        /\ tree' = [q \in DOMAIN tree \cup {p} |-> IF q = p THEN "" ELSE tree[q]]

Writes(o) ==
    /\ op[o].pc = "write" /\ op'[o] \in {Finished(o), [Finished(o) EXCEPT !.lost = TRUE]}
    /\ \E x \in Texts : x # "outside" /\ tree' \in {tree, PutText(o, x)}

Removes(o) ==
    LET p == Spot(op[o].abs)
    IN  /\ op[o].pc = "remove" /\ op'[o] = [Finished(o) EXCEPT !.did = TRUE]
        /\ At(p) # "missing" /\ Inside(p) = {} /\ tree' = [tree EXCEPT ![p] = "missing"]

\* What a step at some place leaves of the threads that did not take it.
Disturbs(o, p, removed) ==
    \E ops \in [FsOps -> Op] : /\ op' = Touch(ops, FsOps \ {o}, p, "request", removed)
                               /\ \A q \in FsOps \ {o} : ops[q] = op[q]

\* Touching threads keeps all of them what they are, but for what they know
\* of their path.
LEMMA TouchTypes ==
    ASSUME NEW ops \in [FsOps -> Op], NEW S, NEW p, NEW who \in Doubts, NEW removed \in BOOLEAN
    PROVE  Touch(ops, S, p, who, removed) \in [FsOps -> Op]
<1>1. ASSUME NEW q \in FsOps
      PROVE  [ops[q] EXCEPT !.doubts = @ \cup {who}, !.linked = @ /\ ~removed] \in Op
  <2>1. ops[q] \in Op
    OBVIOUS
  <2>2. QED
    BY <2>1 DEF Op
<1>2. QED
  BY <1>1 DEF Touch

\* A thread that is done keeps what it was told.
LEMMA FinishedType ==
    ASSUME FsTypeOK, NEW o \in FsOps
    PROVE  /\ Finished(o) \in Op /\ [Finished(o) EXCEPT !.lost = TRUE] \in Op
           /\ [Finished(o) EXCEPT !.did = TRUE] \in Op
<1>1. op[o] \in Op
  BY DEF FsTypeOK
<1>2. Finished(o) \in Op
  BY <1>1 DEF Finished, NoOp, Op, Kinds
<1>3. QED
  BY <1>2 DEF Op

\* Who is spared by a touch stays as he is.
LEMMA TouchOwn ==
    ASSUME NEW ops \in [FsOps -> Op], NEW o \in FsOps, NEW p, NEW who, NEW removed \in BOOLEAN,
           op' = Touch(ops, FsOps \ {o}, p, who, removed)
    PROVE  op'[o] = ops[o]
  BY DEF Touch

\* A step that ends the thread, with the tree as it was.
LEMMA EndShape ==
    ASSUME FsTypeOK, NEW o \in FsOps, NEW sent, EndWith(o, sent), tree' = tree,
           op[o].pc \in {"resolve", "stat", "ask", "open", "remove", "read", "list"}
    PROVE  op' \in [FsOps -> Op] /\ OpEnds(o) /\ \A q \in FsOps \ {o} : op'[q] = op[q]
<1>1. op \in [FsOps -> Op] /\ Finished(o) \in Op /\ op' = [op EXCEPT ![o] = Finished(o)]
  BY FinishedType DEF FsTypeOK, EndWith
<1> QED
  BY <1>1 DEF OpEnds

\* A step at a place: the thread becomes what it does, the others are touched.
LEMMA TouchShape ==
    ASSUME FsTypeOK, NEW o \in FsOps, NEW x \in Op, NEW p, NEW removed \in BOOLEAN,
           op' = Touch([op EXCEPT ![o] = x], FsOps \ {o}, p, "request", removed)
    PROVE  op' \in [FsOps -> Op] /\ op'[o] = x /\ Disturbs(o, p, removed)
<1> DEFINE ops == [op EXCEPT ![o] = x]
<1>1. ops \in [FsOps -> Op] /\ ops[o] = x /\ \A q \in FsOps \ {o} : ops[q] = op[q]
  BY DEF FsTypeOK
<1>2. op' = Touch(ops, FsOps \ {o}, p, "request", removed)
  OBVIOUS
<1> HIDE DEF ops
<1>3. op' \in [FsOps -> Op]
  <2>1. "request" \in Doubts
    BY DEF Doubts
  <2>2. Touch(ops, FsOps \ {o}, p, "request", removed) \in [FsOps -> Op]
    BY <1>1, <2>1, TouchTypes
  <2>3. QED
    BY <1>2, <2>2
<1>4. op'[o] = ops[o]
  BY <1>1, <1>2, TouchOwn
<1>5. QED
  BY <1>1, <1>2, <1>3, <1>4 DEF Disturbs

\* What a thread's step can be, and to whom else it does something.
LEMMA OwnStep ==
    ASSUME FsTypeOK, PathInv, TreeInv, NEW o \in FsOps, FsStep(o)
    PROVE  /\ op' \in [FsOps -> Op]
           /\ \/ OpEnds(o) \/ Resolves(o) \/ Stats(o) \/ OpAnswers(o) \/ Approves(o)
              \/ Opens(o) \/ Writes(o) \/ Removes(o)
           /\ \/ tree' = tree /\ \A q \in FsOps \ {o} : op'[q] = op[q]
              \/ Opens(o) /\ Disturbs(o, Place(op[o].abs), FALSE)
              \/ Writes(o) /\ Disturbs(o, op[o].abs, FALSE)
              \/ Removes(o) /\ Disturbs(o, Spot(op[o].abs), TRUE)
<1>0. op \in [FsOps -> Op] /\ op[o] \in Op
  BY DEF FsTypeOK
<1>1. CASE FsResolve(o)
  <2> DEFINE r == fs_resolve(op[o].path, op[o].kind = "create")
  <2>0. op[o].pc = "resolve" /\ tree' = tree
    BY <1>1 DEF FsResolve
  <2>1. op[o].path \in Seq(STRING) /\ op[o].kind \in Kinds
    <3>1. op[o].path \in Paths \cup {<<>>} /\ Paths \subseteq Seq(STRING)
      BY <1>0, FsAssumption DEF Op, FsAssumption
    <3>2. <<>> \in Seq(STRING)
      BY EmptySeq
    <3>3. QED
      BY <1>0, <3>1, <3>2 DEF Op
  <2>2. CASE r = Nowhere
    <3>1. EndWith(o, Sent("error"))
      BY <1>1, <2>2 DEF FsResolve, Refuse
    <3>2. QED
      BY <2>0, <3>1, EndShape
  <2>3. CASE r # Nowhere
    <3> DEFINE d == IF At(r) = "link" THEN {"link"} ELSE {}
               s == IF op[o].kind \in {"modify", "delete"} THEN "none" ELSE op[o].said
    <3>1. r \in Places
      BY <2>1, <2>3, ResolvedInside
    <3>2. op' = [op EXCEPT ![o].pc = AfterResolve[op[o].kind], ![o].abs = r, ![o].path = <<>>,
                           ![o].doubts = d, ![o].said = s]
      BY <1>1, <2>3 DEF FsResolve
    <3>3. AfterResolve[op[o].kind] \in {"read", "list", "stat", "ask"}
      BY <2>1 DEF Kinds, AfterResolve
    <3>4. d \in SUBSET Doubts /\ s \in {"unasked", "none", "yes", "no"}
      BY <1>0 DEF Doubts, Op
    <3> HIDE DEF r, d, s
    <3>5. op' \in [FsOps -> Op]
      <4>1. [op[o] EXCEPT !.pc = AfterResolve[op[o].kind], !.abs = r, !.path = <<>>,
                          !.doubts = d, !.said = s] \in Op
        BY <1>0, <3>1, <3>3, <3>4 DEF Op
      <4>2. op' = [op EXCEPT ![o] = [op[o] EXCEPT !.pc = AfterResolve[op[o].kind], !.abs = r,
                                                  !.path = <<>>, !.doubts = d, !.said = s]]
        BY <1>0, <3>2 DEF Op
      <4>3. QED
        BY <1>0, <4>1, <4>2
    <3>6. /\ op'[o].pc = AfterResolve[op[o].kind] /\ op'[o].kind = op[o].kind
          /\ op'[o].abs = r /\ op'[o].did = op[o].did /\ op'[o].doubts = d /\ op'[o].said = s
          /\ \A q \in FsOps \ {o} : op'[q] = op[q]
      BY <1>0, <3>2 DEF Op
    <3>7. Resolves(o)
      BY <2>0, <2>1, <2>3, <3>6 DEF Resolves, r, d, s
    <3>8. QED
      BY <2>0, <3>5, <3>6, <3>7
  <2>4. QED
    BY <2>2, <2>3
<1>2. CASE FsStat(o)
  <2>0. op[o].pc = "stat" /\ tree' = tree
    BY <1>2 DEF FsStat
  <2>1. CASE Exists(op[o].abs)
    <3>1. EndWith(o, Sent("error"))
      BY <1>2, <2>1 DEF FsStat, Refuse
    <3>2. QED
      BY <2>0, <3>1, EndShape
  <2>2. CASE ~Exists(op[o].abs)
    <3>1. op' = [op EXCEPT ![o].pc = "ask", ![o].said = "none",
                           ![o].doubts = @ \ {"request"}]
      BY <1>2, <2>2 DEF FsStat
    <3>2. /\ op' \in [FsOps -> Op] /\ \A q \in FsOps \ {o} : op'[q] = op[q]
          /\ op'[o].pc = "ask" /\ op'[o].said = "none" /\ op'[o].kind = op[o].kind
          /\ op'[o].abs = op[o].abs /\ op'[o].did = op[o].did
          /\ op'[o].doubts = op[o].doubts \ {"request"}
      BY <1>0, <3>1 DEF Op
    <3>3. QED
      BY <2>0, <2>2, <3>2 DEF Stats, Keeps
  <2>3. QED
    BY <2>1, <2>2
<1>3. CASE FsAnswer(o)
  <2>1. PICK said \in {"yes", "no"} : op' = [op EXCEPT ![o].said = said]
    BY <1>3 DEF FsAnswer
  <2>2. /\ op' \in [FsOps -> Op] /\ \A q \in FsOps \ {o} : op'[q] = op[q]
        /\ op'[o].pc = op[o].pc /\ op'[o].said = said /\ op'[o].kind = op[o].kind
        /\ op'[o].abs = op[o].abs /\ op'[o].did = op[o].did /\ op'[o].doubts = op[o].doubts
    BY <1>0, <2>1 DEF Op
  <2>3. QED
    BY <1>3, <2>2 DEF FsAnswer, OpAnswers, Keeps
<1>4. CASE FsApproval(o)
  <2>0. op[o].pc = "ask" /\ tree' = tree
    BY <1>4 DEF FsApproval
  <2>1. CASE Refuse(o)
    BY <2>0, <2>1, EndShape DEF Refuse
  <2>2. CASE ~Refuse(o)
    <3>1. PICK pc \in {"remove", "open"} : op' = [op EXCEPT ![o].pc = pc]
      BY <1>4, <2>2 DEF FsApproval, GoOn
    <3>2. /\ op' \in [FsOps -> Op] /\ \A q \in FsOps \ {o} : op'[q] = op[q]
          /\ op'[o].pc = pc /\ op'[o].said = op[o].said /\ op'[o].kind = op[o].kind
          /\ op'[o].abs = op[o].abs /\ op'[o].did = op[o].did /\ op'[o].doubts = op[o].doubts
      BY <1>0, <3>1 DEF Op
    <3>3. op[o].said = "yes"
      BY <1>4, <2>2 DEF FsApproval
    <3>4. Approves(o)
      BY <2>0, <3>2, <3>3 DEF Approves, Keeps
    <3>5. QED
      BY <2>0, <3>2, <3>4
  <2>3. QED
    BY <2>1, <2>2
<1>5. CASE FsOpen(o)
  <2> DEFINE p == Place(op[o].abs)
  <2>0. op[o].pc = "open"
    BY <1>5 DEF FsOpen
  <2>1. CASE Refuse(o) /\ tree' = tree
    BY <2>0, <2>1, EndShape DEF Refuse
  <2>2. CASE ~(Refuse(o) /\ tree' = tree)
    <3> DEFINE x == [op[o] EXCEPT !.pc = "write", !.did = TRUE, !.abs = p,
                                  !.doubts = @ \ {"request"}, !.linked = TRUE]
    <3>1. /\ p # Nowhere /\ ~IsDir(p) /\ IsDir(Parent(p))
          /\ tree' = [q \in DOMAIN tree \cup {p} |-> IF q = p THEN "" ELSE tree[q]]
          /\ op' = Touch([op EXCEPT ![o].pc = "write", ![o].did = TRUE, ![o].abs = p,
                                    ![o].doubts = @ \ {"request"}, ![o].linked = TRUE],
                         FsOps \ {o}, p, "request", FALSE)
      BY <1>5, <2>2 DEF FsOpen
    <3>2. p \in Places \cup {Nowhere}
      <4>1. op[o].abs \in Places
        BY <1>0, <2>0 DEF PathInv, AtPath, Op
      <4>2. QED
        BY <4>1, PlaceType
    <3>3. /\ x \in Op /\ x.pc = "write" /\ x.did /\ x.said = op[o].said /\ x.abs = p
          /\ x.doubts = op[o].doubts \ {"request"} /\ x.linked
      BY <1>0, <3>2 DEF Op
    <3>4. [op EXCEPT ![o].pc = "write", ![o].did = TRUE, ![o].abs = p,
                     ![o].doubts = @ \ {"request"}, ![o].linked = TRUE] = [op EXCEPT ![o] = x]
      BY <1>0 DEF Op
    <3> HIDE DEF p, x
    <3>5. op' \in [FsOps -> Op] /\ op'[o] = x /\ Disturbs(o, p, FALSE)
      BY <3>1, <3>3, <3>4, TouchShape
    <3>6. Opens(o)
      BY <2>0, <3>1, <3>3, <3>5 DEF Opens, p
    <3>7. QED
      BY <3>5, <3>6 DEF p
  <2>3. QED
    BY <2>1, <2>2
<1>6. CASE FsWrite(o)
  <2>1. Written(o) \cup {"half"} \subseteq Texts \ {"outside"}
    BY FsAssumption DEF Written, Texts, FixedTexts, FsAssumption
  <2>2. \E fin \in {Finished(o), [Finished(o) EXCEPT !.lost = TRUE]}, x \in Texts :
          /\ x # "outside" /\ tree' \in {tree, PutText(o, x)}
          /\ op' = Touch([op EXCEPT ![o] = fin], FsOps \ {o}, op[o].abs, "request", FALSE)
    <3>1. CASE \E x \in Written(o) :
                  /\ tree' = PutText(o, x)
                  /\ op' = Touch([op EXCEPT ![o] = Finished(o)], FsOps \ {o}, op[o].abs,
                                 "request", FALSE)
      BY <2>1, <3>1
    <3>2. CASE /\ tree' = PutText(o, "half")
               /\ op' = Touch([op EXCEPT ![o] = Finished(o)], FsOps \ {o}, op[o].abs,
                              "request", FALSE)
      BY <2>1, <3>2
    <3>3. CASE /\ tree' \in {tree, PutText(o, "half")}
               /\ op' = Touch([op EXCEPT ![o] = [Finished(o) EXCEPT !.lost = TRUE]],
                              FsOps \ {o}, op[o].abs, "request", FALSE)
      BY <2>1, <3>3
    <3>4. QED
      BY <1>6, <3>1, <3>2, <3>3 DEF FsWrite
  <2>3. PICK fin \in {Finished(o), [Finished(o) EXCEPT !.lost = TRUE]}, x \in Texts :
          /\ x # "outside" /\ tree' \in {tree, PutText(o, x)}
          /\ op' = Touch([op EXCEPT ![o] = fin], FsOps \ {o}, op[o].abs, "request", FALSE)
    BY <2>2
  <2>4. fin \in Op
    BY FinishedType
  <2>5. op' \in [FsOps -> Op] /\ op'[o] = fin /\ Disturbs(o, op[o].abs, FALSE)
    BY <2>3, <2>4, TouchShape
  <2>6. Writes(o)
    BY <1>6, <2>3, <2>5 DEF FsWrite, Writes
  <2>7. QED
    BY <2>5, <2>6
<1>7. CASE FsRemove(o)
  <2> DEFINE p == Spot(op[o].abs)
             fin == [Finished(o) EXCEPT !.did = TRUE]
  <2>0. op[o].pc = "remove"
    BY <1>7 DEF FsRemove
  <2>1. CASE Refuse(o) /\ tree' = tree
    BY <2>0, <2>1, EndShape DEF Refuse
  <2>2. CASE ~(Refuse(o) /\ tree' = tree)
    <3>1. /\ At(p) # "missing" /\ Inside(p) = {} /\ tree' = [tree EXCEPT ![p] = "missing"]
          /\ op' = Touch([op EXCEPT ![o] = fin], FsOps \ {o}, p, "request", TRUE)
      BY <1>7, <2>2 DEF FsRemove
    <3>2. fin \in Op
      BY FinishedType
    <3> HIDE DEF p, fin
    <3>3. op' \in [FsOps -> Op] /\ op'[o] = fin /\ Disturbs(o, p, TRUE)
      BY <3>1, <3>2, TouchShape
    <3>4. Removes(o)
      BY <2>0, <3>1, <3>3 DEF Removes, p, fin
    <3>5. QED
      BY <3>3, <3>4 DEF p
  <2>3. QED
    BY <2>1, <2>2
<1>8. CASE FsRead(o)
  <2>1. op[o].pc = "read" /\ tree' = tree /\ \E sent : EndWith(o, sent)
    BY <1>8 DEF FsRead, Refuse
  <2>2. QED
    BY <2>1, EndShape
<1>9. CASE FsList(o)
  <2>1. op[o].pc = "list" /\ tree' = tree /\ \E sent : EndWith(o, sent)
    BY <1>9 DEF FsList, Refuse
  <2>2. QED
    BY <2>1, EndShape
<1>10. QED
  BY <1>1, <1>2, <1>3, <1>4, <1>5, <1>6, <1>7, <1>8, <1>9 DEF FsStep

-----------------------------------------------------------------------------
(* What a step does to the tree.                                           *)

\* A thread changes one place: it puts a text where there is no directory and
\* no link, or takes away what is there and has nothing in it.
Changed(p, gone) ==
    /\ p \in Places \ {Nowhere} /\ DOMAIN tree' = DOMAIN tree \cup {p}
    /\ tree' = [r \in DOMAIN tree' |-> tree'[r]] /\ \A r : r # p => At(r)' = At(r)
    /\ gone => tree'[p] = "missing" /\ Inside(p) = {}
    /\ ~gone => /\ tree'[p] \in Texts \ {"outside"}
                /\ IsDir(Parent(p)) /\ ~IsDir(p) /\ At(p) # "link"

LEMMA StepChanges ==
    ASSUME FsTypeOK, TreeInv, OpenInv, PathInv, NEW o \in FsOps, FsStep(o)
    PROVE  \/ tree' = tree
           \/ Opens(o) /\ Changed(Place(op[o].abs), FALSE)
           \/ Writes(o) /\ Changed(op[o].abs, FALSE)
           \/ Removes(o) /\ Changed(Spot(op[o].abs), TRUE)
<1>0. /\ tree \in [DOMAIN tree -> Things] /\ op[o] \in Op
      /\ op[o].pc \in AtPath => op[o].abs \in Places
  BY DEF FsTypeOK, PathInv, Op
<1>1. ASSUME Opens(o) PROVE Changed(Place(op[o].abs), FALSE)
  <2> DEFINE p == Place(op[o].abs)
  <2>1. /\ p # Nowhere /\ ~IsDir(p) /\ IsDir(Parent(p))
        /\ tree' = [q \in DOMAIN tree \cup {p} |-> IF q = p THEN "" ELSE tree[q]]
    BY <1>1 DEF Opens
  <2>2. op[o].abs \in Places
    BY <1>0, <1>1 DEF Opens, AtPath
  <2>3. p \in Places \ {Nowhere} /\ At(p) # "link"
    BY <2>1, <2>2, PlaceType
  <2> HIDE DEF p
  <2>4. \A r : r # p => At(r)' = At(r)
    BY <2>1 DEF At
  <2>5. /\ DOMAIN tree' = DOMAIN tree \cup {p} /\ tree'[p] = ""
        /\ tree' = [r \in DOMAIN tree' |-> tree'[r]]
    BY <2>1
  <2>6. "" \in Texts \ {"outside"}
    BY DEF Texts, FixedTexts
  <2>7. Changed(p, FALSE)
    BY <2>1, <2>3, <2>4, <2>5, <2>6 DEF Changed
  <2>8. QED
    BY <2>7 DEF p
<1>2. ASSUME Writes(o), tree' # tree PROVE Changed(op[o].abs, FALSE)
  <2> DEFINE p == op[o].abs
  <2>1. PICK x \in Texts : x # "outside" /\ tree' = PutText(o, x)
    BY <1>2 DEF Writes
  <2>2. op[o].pc = "write" /\ op[o].linked /\ tree' = [tree EXCEPT ![p] = x]
    BY <1>2, <2>1 DEF Writes, PutText
  <2>3. IsFile(p)
    BY <2>2 DEF OpenInv
  <2> HIDE DEF p
  <2>4. p \in DOMAIN tree /\ p \in Places \ {Nowhere} /\ ~IsDir(p) /\ At(p) # "link"
    BY <2>3, ThereIsAPlace DEF IsFile, IsDir
  <2>5. IsDir(Parent(p))
    BY <2>3, <2>4 DEF TreeInv, IsFile
  <2>6. \A r : r # p => At(r)' = At(r)
    BY <2>2 DEF At
  <2>7. /\ tree'[p] = x /\ DOMAIN tree' = DOMAIN tree \cup {p}
        /\ tree' = [r \in DOMAIN tree' |-> tree'[r]]
    BY <1>0, <2>2, <2>4
  <2>8. Changed(p, FALSE)
    BY <2>1, <2>4, <2>5, <2>6, <2>7 DEF Changed
  <2>9. QED
    BY <2>8 DEF p
<1>3. ASSUME Removes(o) PROVE Changed(Spot(op[o].abs), TRUE)
  <2> DEFINE p == Spot(op[o].abs)
  <2>1. At(p) # "missing" /\ Inside(p) = {} /\ tree' = [tree EXCEPT ![p] = "missing"]
    BY <1>3 DEF Removes
  <2> HIDE DEF p
  <2>2. p \in DOMAIN tree /\ p \in Places \ {Nowhere}
    BY <2>1, ThereIsAPlace
  <2>3. \A r : r # p => At(r)' = At(r)
    BY <2>1 DEF At
  <2>4. /\ tree'[p] = "missing" /\ DOMAIN tree' = DOMAIN tree \cup {p}
        /\ tree' = [r \in DOMAIN tree' |-> tree'[r]]
    BY <1>0, <2>1, <2>2
  <2>5. Changed(p, TRUE)
    BY <2>1, <2>2, <2>3, <2>4 DEF Changed
  <2>6. QED
    BY <2>5 DEF p
<1>4. QED
  BY <1>1, <1>2, <1>3, OwnStep DEF OpEnds, Resolves, Stats, OpAnswers, Approves, Keeps

\* No link and no directory appears, and no file goes but one taken away.
LEMMA ChangedThings ==
    ASSUME FsTypeOK, NEW p, NEW gone \in BOOLEAN, Changed(p, gone)
    PROVE  /\ tree' \in [DOMAIN tree' -> Things] /\ DOMAIN tree \subseteq DOMAIN tree'
           /\ DOMAIN tree' \subseteq Places \ {Nowhere} /\ At(p)' = tree'[p]
           /\ \A r : (At(r) = "link")' => r # p /\ At(r) = "link"
           /\ \A r : IsDir(r)' => r # p /\ IsDir(r)
           /\ ~gone => \A r : IsFile(r) => IsFile(r)'
           /\ tree'[p] \notin {"dir", "link", "outside"}
<1>1. tree \in [DOMAIN tree -> Things] /\ DOMAIN tree \subseteq Places \ {Nowhere}
  BY DEF FsTypeOK
<1>2. DOMAIN tree' = DOMAIN tree \cup {p} /\ \A r : r # p => At(r)' = At(r)
  BY DEF Changed
<1>3. At(p)' = tree'[p]
  BY <1>2 DEF At
<1>4. tree'[p] \in {"missing"} \cup Texts /\ tree'[p] # "outside"
      /\ (~gone => tree'[p] \in Texts)
  BY DEF Changed, Texts, FixedTexts
<1>5. Texts \cap {"missing", "dir", "link"} = {}
  BY FsAssumption DEF FsAssumption, Texts, FixedTexts
<1>6. ASSUME NEW r \in DOMAIN tree' PROVE tree'[r] \in Things
  <2>1. CASE r = p
    BY <1>4, <2>1 DEF Things
  <2>2. CASE r # p
    <3>1. r \in DOMAIN tree /\ tree'[r] = tree[r]
      BY <1>2, <2>2 DEF At
    <3>2. QED
      BY <1>1, <3>1
  <2>3. QED
    BY <2>1, <2>2
<1>7. tree' = [r \in DOMAIN tree' |-> tree'[r]]
  BY DEF Changed
<1>8. QED
  BY <1>1, <1>2, <1>3, <1>4, <1>5, <1>6, <1>7 DEF Changed, IsDir, IsFile

\* By hand a thing is put at a place, and what was in it is gone.
Edited(p) ==
    /\ p \in DOMAIN tree /\ IsPrefix(Root, p) /\ Root # p /\ IsDir(Parent(p))
    /\ DOMAIN tree' = DOMAIN tree /\ tree' \in [DOMAIN tree -> Things]
    /\ \A r : ~IsPrefix(p, r) => At(r)' = At(r)
    /\ \A r : IsPrefix(p, r) /\ r # p => At(r)' = "missing"
    /\ At(p)' \in {"missing", "old", "dir", "link"}
    /\ At(p)' = "link" => p \in DOMAIN LeadsTo

LEMMA EditChanges ==
    ASSUME FsTypeOK, NEW p \in DOMAIN Tree0, FsEdit(p)
    PROVE  Edited(p) /\ op' = Touch(op, FsOps, p, "hand", TRUE) /\ reply' = reply
           /\ edits' \in 0..MaxEdits
<1>0. p \in DOMAIN tree /\ tree \in [DOMAIN tree -> Things] /\ p \in Seq(STRING)
  BY DEF FsTypeOK, Places
<1>1. PICK thing \in {"missing", "old", "dir", "link"} :
        /\ thing = "link" => p \in DOMAIN LeadsTo
        /\ tree' = [q \in DOMAIN tree |-> IF q = p THEN thing
                                          ELSE IF IsPrefix(p, q) THEN "missing" ELSE tree[q]]
  <2>1. \A x : x \in (IF p \in DOMAIN LeadsTo THEN {"link"} ELSE {}) =>
               x = "link" /\ p \in DOMAIN LeadsTo
    OBVIOUS
  <2>2. \A x \in {"missing", "old", "dir"} : x # "link"
    OBVIOUS
  <2>3. QED
    BY <2>1, <2>2 DEF FsEdit
<1>2. DOMAIN tree' = DOMAIN tree /\ tree' \in [DOMAIN tree -> Things]
  <2>1. {"missing", "old", "dir", "link"} \subseteq Things
    BY DEF Things, Texts, FixedTexts
  <2>2. QED
    BY <1>0, <1>1, <2>1 DEF Things
<1>3. /\ \A r : ~IsPrefix(p, r) => At(r)' = At(r)
      /\ \A r : IsPrefix(p, r) /\ r # p => At(r)' = "missing"
      /\ At(p)' = thing
  <2>1. IsPrefix(p, p)
    BY <1>0, PrefixFacts
  <2>2. QED
    BY <1>0, <1>1, <1>2, <2>1 DEF At
<1>4. /\ IsPrefix(Root, p) /\ Root # p /\ IsDir(Parent(p))
      /\ op' = Touch(op, FsOps, p, "hand", TRUE) /\ reply' = reply
  BY DEF FsEdit, IsStrictPrefix
<1>5. edits' \in 0..MaxEdits
  BY FsAssumption DEF FsEdit, FsTypeOK, FsAssumption
<1>6. QED
  BY <1>0, <1>1, <1>2, <1>3, <1>4, <1>5 DEF Edited

\* What is there stays in a directory, and links stay where they can be.
LEMMA TreeStep ==
    ASSUME FsTypeOK, TreeInv, OpenInv, PathInv, [FsNext]_fsVars
    PROVE  TreeInv'
<1>0. Root \in Seq(STRING)
  BY FsAssumption DEF FsAssumption, Places
<1>1. ASSUME NEW p, NEW gone \in BOOLEAN, Changed(p, gone) PROVE TreeInv'
  <2>0. /\ DOMAIN tree' = DOMAIN tree \cup {p} /\ \A r : r # p => At(r)' = At(r)
        /\ DOMAIN tree' \subseteq Places \ {Nowhere}
        /\ \A r : (At(r) = "link")' => r # p /\ At(r) = "link"
        /\ At(p)' = tree'[p] /\ tree'[p] # "outside"
    BY <1>1, ChangedThings DEF Changed
  <2>1. ASSUME NEW q \in DOMAIN tree', At(q)' # "missing" PROVE IsDir(Parent(q))'
    <3>0. q \in Seq(STRING)
      BY <2>0 DEF Places
    <3>1. CASE q = p
      <4>1. ~gone /\ IsDir(Parent(p)) /\ ~IsDir(p)
        BY <1>1, <2>0, <2>1, <3>1 DEF Changed
      <4>2. Parent(p) # p
        BY <4>1
      <4>3. QED
        BY <2>0, <3>1, <4>1, <4>2 DEF IsDir, Parent
    <3>2. CASE q # p
      <4>1. q \in DOMAIN tree /\ At(q) # "missing" /\ IsDir(Parent(q))
        BY <2>0, <2>1, <3>2, ThereIsAPlace DEF TreeInv
      <4>2. Parent(q) # p
        <5> SUFFICES ASSUME Parent(q) = p PROVE FALSE
          OBVIOUS
        <5>1. q # <<>> /\ Front(q) = p
          BY <3>2 DEF Parent
        <5>2. gone
          BY <1>1, <4>1 DEF Changed
        <5>3. q \in Inside(p)
          BY <4>1, <5>1 DEF Inside
        <5>4. QED
          BY <1>1, <5>2, <5>3 DEF Changed
      <4>3. At(Parent(q))' = At(Parent(q))
        BY <2>0, <4>2 DEF Parent
      <4>4. QED
        BY <4>1, <4>3 DEF IsDir, Parent
    <3>3. QED
      BY <3>1, <3>2
  <2>2. ASSUME NEW q \in DOMAIN tree', (At(q) = "link")' PROVE q \in DOMAIN LeadsTo
    BY <2>0, <2>2, ThereIsAPlace DEF TreeInv
  <2>3. ASSUME NEW q \in DOMAIN tree', (At(q) = "outside")' PROVE ~IsPrefix(Root, q)
    <3>1. q # p
      BY <2>0, <2>3
    <3>2. At(q) = "outside" /\ q \in DOMAIN tree
      BY <2>0, <2>3, <3>1
    <3>3. QED
      BY <3>2 DEF TreeInv
  <2>4. Clear(Root)'
    BY <2>0 DEF Clear, TreeInv
  <2>5. QED
    BY <2>1, <2>2, <2>3, <2>4 DEF TreeInv
<1>2. ASSUME NEW p, Edited(p) PROVE TreeInv'
  <2>0. /\ p \in Seq(STRING) /\ DOMAIN tree' = DOMAIN tree
        /\ \A q \in DOMAIN tree : q \in Seq(STRING)
        /\ \A r : ~IsPrefix(p, r) => At(r)' = At(r)
        /\ \A r : IsPrefix(p, r) /\ r # p => At(r)' = "missing"
    BY <1>2 DEF Edited, FsTypeOK, Places
  <2>5. p # <<>>
    <3>1. Root # <<>> /\ IsPrefix(Root, p)
      BY <1>2, FsAssumption DEF Edited, FsAssumption
    <3>2. <<>> \in Seq(STRING) /\ Len(<<>>) = 0
      BY EmptySeq
    <3>3. Len(Root) \in Nat \ {0}
      BY <1>0, <3>1, EmptySeq
    <3>4. ~(Len(Root) <= Len(<<>>))
      BY <3>2, <3>3
    <3>5. ~IsPrefix(Root, <<>>)
      BY <1>0, <3>2, <3>4, PrefixElements
    <3>6. QED
      BY <3>1, <3>5
  <2>1. ASSUME NEW q \in DOMAIN tree', At(q)' # "missing" PROVE IsDir(Parent(q))'
    <3>1. /\ q \in Seq(STRING)
          /\ q # <<>> => /\ Front(q) \in Seq(STRING) /\ IsPrefix(Front(q), q)
                         /\ ~IsPrefix(q, Front(q))
      BY <2>0, FrontAndLast
    <3>2. IsDir(Parent(q))
      <4>1. CASE q = p
        BY <1>2, <4>1 DEF Edited
      <4>2. CASE q # p
        <5>1. At(q) # "missing" /\ q \in DOMAIN tree
          BY <2>0, <2>1, <4>2
        <5>2. QED
          BY <5>1 DEF TreeInv
      <4>3. QED
        BY <4>1, <4>2
    <3>3. CASE q = p
      <4>0. q # <<>>
        BY <2>5, <3>3
      <4>1. Parent(q) = Front(q) /\ ~IsPrefix(p, Front(q))
        <5>1. ~IsPrefix(q, Front(q))
          BY <3>1, <4>0
        <5>2. QED
          BY <3>3, <4>0, <5>1 DEF Parent
      <4>2. QED
        BY <2>0, <3>2, <4>1 DEF IsDir, Parent
    <3>4. CASE q # p
      <4>1. ~IsPrefix(p, q)
        BY <2>0, <2>1, <3>4
      <4>2. ~IsPrefix(p, Parent(q))
        <5>1. CASE q = <<>>
          BY <4>1, <5>1 DEF Parent
        <5>2. CASE q # <<>>
          BY <2>0, <3>1, <4>1, <5>2, PrefixFacts DEF Parent
        <5>3. QED
          BY <5>1, <5>2
      <4>3. QED
        BY <2>0, <3>2, <4>2 DEF IsDir, Parent
    <3>5. QED
      BY <3>3, <3>4
  <2>2. ASSUME NEW q \in DOMAIN tree', (At(q) = "link")' PROVE q \in DOMAIN LeadsTo
    <3>1. CASE q = p
      BY <1>2, <2>2, <3>1 DEF Edited
    <3>2. CASE q # p
      <4>1. At(q) = "link" /\ q \in DOMAIN tree
        BY <2>0, <2>2, <3>2
      <4>2. QED
        BY <4>1 DEF TreeInv
    <3>3. QED
      BY <3>1, <3>2
  <2>3. ASSUME NEW q \in DOMAIN tree', (At(q) = "outside")' PROVE ~IsPrefix(Root, q)
    <3>1. q # p
      BY <1>2, <2>3 DEF Edited
    <3>2. At(q) = "outside" /\ q \in DOMAIN tree
      BY <2>0, <2>3, <3>1
    <3>3. QED
      BY <3>2 DEF TreeInv
  <2>4. Clear(Root)'
    <3>1. ~IsPrefix(p, Root)
      BY <1>0, <1>2, <2>0, PrefixFacts DEF Edited
    <3>2. ASSUME NEW r \in Seq(STRING), IsPrefix(r, Root) PROVE (At(r) # "link")'
      <4>1. ~IsPrefix(p, r)
        BY <1>0, <2>0, <3>1, <3>2, PrefixFacts
      <4>2. At(r)' = At(r)
        BY <2>0, <4>1
      <4>3. At(r) # "link"
        BY <3>2 DEF TreeInv, Clear
      <4>4. QED
        BY <4>2, <4>3
    <3>3. QED
      BY <3>2 DEF Clear
  <2>6. QED
    BY <2>1, <2>2, <2>3, <2>4 DEF TreeInv
<1>3. CASE tree' = tree
  BY <1>3 DEF TreeInv, At, IsDir, Clear, Parent
<1>4. CASE tree' # tree
  <2>1. CASE \E o \in FsOps : FsStep(o)
    BY <1>1, <1>4, <2>1, StepChanges
  <2>2. CASE \E p \in DOMAIN Tree0 : FsEdit(p)
    BY <1>2, <2>2, EditChanges
  <2>3. QED
    BY <1>4, <2>1, <2>2 DEF FsNext, FsAsk, fsVars
<1>5. QED
  BY <1>3, <1>4
-----------------------------------------------------------------------------
(* Types.                                                                  *)

Answer == [st : {"none", "ok", "error"}, text : SUBSET Texts, entries : SUBSET DOMAIN tree]

\* A thread replies when it ends, and only then.
Says(o) ==
    \/ reply' = reply /\ op'[o].pc # "done"
    \/ op'[o].pc = "done" /\ \E sent \in Answer : reply' = [reply EXCEPT ![o] = sent]

LEMMA StepSays ==
    ASSUME FsTypeOK, PathInv, TreeInv, NEW o \in FsOps, FsStep(o)
    PROVE  Says(o)
<1>0. op \in [FsOps -> Op] /\ op[o] \in Op /\ tree \in [DOMAIN tree -> Things]
  BY DEF FsTypeOK
<1>1. Sent("ok") \in Answer /\ Sent("error") \in Answer
  BY DEF Sent, Answer
<1>2. Finished(o).pc = "done" /\ Finished(o) \in Op
  BY FinishedType DEF Finished, NoOp
<1>3. ASSUME NEW sent \in Answer, EndWith(o, sent) PROVE Says(o)
  <2>1. op'[o] = Finished(o) /\ reply' = [reply EXCEPT ![o] = sent]
    BY <1>0, <1>3 DEF EndWith, Reply
  <2>2. QED
    BY <1>2, <2>1 DEF Says
<1>4. ASSUME Refuse(o) PROVE Says(o)
  BY <1>1, <1>3, <1>4 DEF Refuse
<1>5. ASSUME ~Refuse(o), FsOpen(o) \/ FsResolve(o) \/ FsStat(o) \/ FsAnswer(o) \/ FsApproval(o)
      PROVE  Says(o)
  <2>1. reply' = reply
    BY <1>5 DEF FsOpen, FsResolve, FsStat, FsAnswer, FsApproval
  <2>2. op'[o].pc # "done"
    <3>1. CASE FsResolve(o)
      <4>1. AfterResolve[op[o].kind] \in {"read", "list", "stat", "ask"}
        BY <1>0 DEF Op, Kinds, AfterResolve
      <4>2. op'[o].pc = AfterResolve[op[o].kind]
        BY <1>0, <1>5, <3>1 DEF FsResolve, Op
      <4>3. QED
        BY <4>1, <4>2
    <3>2. CASE FsStat(o)
      BY <1>0, <1>5, <3>2 DEF FsStat, Op
    <3>3. CASE FsAnswer(o)
      BY <1>0, <3>3 DEF FsAnswer, Op
    <3>4. CASE FsApproval(o)
      BY <1>0, <1>5, <3>4 DEF FsApproval, Op, GoOn
    <3>5. CASE FsOpen(o)
      <4> DEFINE p == Place(op[o].abs)
                 ops == [op EXCEPT ![o].pc = "write", ![o].did = TRUE, ![o].abs = p,
                                   ![o].doubts = @ \ {"request"}, ![o].linked = TRUE]
      <4>1. op' = Touch(ops, FsOps \ {o}, p, "request", FALSE)
        BY <1>5, <3>5 DEF FsOpen
      <4>2. ops[o].pc = "write"
        BY <1>0 DEF Op
      <4> HIDE DEF ops
      <4>3. QED
        BY <4>1, <4>2 DEF Touch
    <3>6. QED
      BY <1>5, <3>1, <3>2, <3>3, <3>4, <3>5
  <2>3. QED
    BY <2>1, <2>2 DEF Says
<1>6. ASSUME FsWrite(o) \/ FsRemove(o), ~Refuse(o) PROVE Says(o)
  <2>1. \E sent \in Answer : reply' = [reply EXCEPT ![o] = sent]
    BY <1>1, <1>6 DEF FsWrite, FsRemove, Reply
  <2>2. op'[o].pc = "done"
    <3>1. op'[o] \in {Finished(o), [Finished(o) EXCEPT !.lost = TRUE],
                      [Finished(o) EXCEPT !.did = TRUE]}
      <4>1. ASSUME NEW x, NEW p, NEW removed,
                   op' = Touch([op EXCEPT ![o] = x], FsOps \ {o}, p, "request", removed)
            PROVE  op'[o] = x
        BY <1>0, <4>1 DEF Touch
      <4>2. QED
        BY <1>6, <4>1 DEF FsWrite, FsRemove
    <3>2. \A x \in {Finished(o), [Finished(o) EXCEPT !.lost = TRUE],
                    [Finished(o) EXCEPT !.did = TRUE]} : x.pc = "done"
      BY <1>2 DEF Op
    <3>3. QED
      BY <3>1, <3>2
  <2>3. QED
    BY <2>1, <2>2 DEF Says
<1>7. CASE FsRead(o)
  <2> DEFINE p == Place(op[o].abs)
  <2>1. /\ IsFile(p) => At(p) \in Texts
        /\ "" \in Texts
    BY <1>0 DEF IsFile, At, Things, Texts, FixedTexts
  <2>2. /\ IsFile(p) => [Sent("ok") EXCEPT !.text = {At(p)}] \in Answer
        /\ [Sent("ok") EXCEPT !.text = {""}] \in Answer
    BY <2>1 DEF Sent, Answer
  <2> HIDE DEF p
  <2>3. \/ IsFile(p) /\ EndWith(o, [Sent("ok") EXCEPT !.text = {At(p)}])
        \/ EndWith(o, [Sent("ok") EXCEPT !.text = {""}])
        \/ Refuse(o)
    BY <1>7 DEF FsRead, p
  <2>4. QED
    BY <1>3, <1>4, <2>2, <2>3
<1>8. CASE FsList(o)
  <2> DEFINE p == Place(op[o].abs)
  <2>1. Entries(p) \in SUBSET DOMAIN tree
    BY DEF Entries, Inside
  <2>2. [Sent("ok") EXCEPT !.entries = Entries(p)] \in Answer
    BY <2>1 DEF Sent, Answer
  <2>3. EndWith(o, [Sent("ok") EXCEPT !.entries = Entries(p)]) \/ Refuse(o)
    BY <1>8 DEF FsList
  <2> HIDE DEF p
  <2>4. QED
    BY <1>3, <1>4, <2>2, <2>3
<1>9. QED
  BY <1>4, <1>5, <1>6, <1>7, <1>8 DEF FsStep

\* Every variable keeps its type.
LEMMA FsTypesStep ==
    ASSUME FsTypeOK, TreeInv, OpenInv, PathInv, [FsNext]_fsVars
    PROVE  FsTypeOK'
<1>0. /\ op \in [FsOps -> Op] /\ reply \in [FsOps -> Answer] /\ edits \in 0..MaxEdits
      /\ DOMAIN Tree0 \subseteq DOMAIN tree /\ DOMAIN tree \subseteq Places \ {Nowhere}
      /\ tree \in [DOMAIN tree -> Things]
  BY DEF FsTypeOK, Answer
<1> DEFINE TreeGrows == /\ DOMAIN tree \subseteq DOMAIN tree'
                        /\ DOMAIN tree' \subseteq Places \ {Nowhere}
                        /\ tree' \in [DOMAIN tree' -> Things]
<1>1. ASSUME TreeGrows, op' \in [FsOps -> Op], reply' \in [FsOps -> Answer],
             edits' \in 0..MaxEdits
      PROVE  FsTypeOK'
  <2>1. Answer \subseteq Answer'
    BY <1>1 DEF Answer
  <2>2. reply' \in [FsOps -> Answer']
    BY <1>1, <2>1
  <2>3. DOMAIN Tree0 \subseteq DOMAIN tree'
    BY <1>0, <1>1
  <2> HIDE DEF TreeGrows
  <2>4. reply' \in [FsOps -> [st : {"none", "ok", "error"}, text : SUBSET Texts,
                              entries : SUBSET DOMAIN tree']]
    BY <2>2 DEF Answer
  <2>5. QED
    BY <1>1, <2>3, <2>4 DEF FsTypeOK, TreeGrows
<1>2. ASSUME NEW o \in FsOps, FsStep(o) PROVE FsTypeOK'
  <2>1. TreeGrows
    <3>1. ASSUME NEW p, NEW gone \in BOOLEAN, Changed(p, gone) PROVE TreeGrows
      BY <3>1, ChangedThings
    <3>2. CASE tree' = tree
      BY <1>0, <3>2
    <3>3. QED
      BY <1>2, <3>1, <3>2, StepChanges
  <2>2. op' \in [FsOps -> Op]
    BY <1>2, OwnStep
  <2>3. reply' \in [FsOps -> Answer]
    BY <1>0, <1>2, StepSays DEF Says
  <2>4. edits' = edits
    BY <1>2 DEF FsStep, FsResolve, FsStat, FsAnswer, FsApproval, FsOpen, FsWrite, FsRemove,
                FsRead, FsList
  <2> HIDE DEF TreeGrows
  <2>5. QED
    BY <1>0, <1>1, <2>1, <2>2, <2>3, <2>4
<1>3. ASSUME NEW p \in DOMAIN Tree0, FsEdit(p) PROVE FsTypeOK'
  <2>1. Edited(p) /\ op' = Touch(op, FsOps, p, "hand", TRUE) /\ reply' = reply
        /\ edits' \in 0..MaxEdits
    BY <1>3, EditChanges
  <2>2. TreeGrows
    BY <1>0, <2>1 DEF Edited
  <2>3. "hand" \in Doubts /\ TRUE \in BOOLEAN
    BY DEF Doubts
  <2>4. Touch(op, FsOps, p, "hand", TRUE) \in [FsOps -> Op]
    BY <1>0, <2>3, TouchTypes
  <2> HIDE DEF TreeGrows
  <2>5. QED
    BY <1>0, <1>1, <2>1, <2>2, <2>4
<1>4. ASSUME NEW o \in FsOps, NEW kind \in Kinds, NEW path \in Paths, FsAsk(o, kind, path)
      PROVE  FsTypeOK'
  <2>1. op' \in [FsOps -> Op]
    <3>1. op[o] \in Op
      BY <1>0
    <3>2. [op[o] EXCEPT !.pc = "resolve", !.kind = kind, !.path = path] \in Op
      BY <3>1 DEF Op
    <3>3. op' = [op EXCEPT ![o] = [op[o] EXCEPT !.pc = "resolve", !.kind = kind, !.path = path]]
      BY <1>0, <1>4 DEF FsAsk, Op
    <3>4. QED
      BY <1>0, <3>2, <3>3
  <2>2. tree' = tree /\ reply' = reply /\ edits' = edits
    BY <1>4 DEF FsAsk
  <2>3. TreeGrows
    BY <1>0, <2>2
  <2> HIDE DEF TreeGrows
  <2>4. QED
    BY <1>0, <1>1, <2>1, <2>2, <2>3
<1>5. CASE UNCHANGED fsVars
  BY <1>5 DEF fsVars, FsTypeOK
<1>6. QED
  BY <1>2, <1>3, <1>4, <1>5 DEF FsNext
-----------------------------------------------------------------------------
(* What the others' steps do to a thread.                                  *)

\* A thread stays where it is; as long as it has no doubts its place stays as
\* it was, no link comes into its path but by hand, and an open file that has
\* its name is still there.
Elsewhere(q) ==
    /\ op'[q].pc = op[q].pc /\ op'[q].kind = op[q].kind /\ op'[q].said = op[q].said
    /\ op'[q].did = op[q].did /\ op'[q].abs = op[q].abs
    /\ op[q].doubts \subseteq op'[q].doubts /\ (op'[q].linked => op[q].linked)
    /\ op[q].pc \in AtPath =>
         /\ op'[q].doubts = {} => op'[q].linked = op[q].linked /\ At(op[q].abs)' = At(op[q].abs)
         /\ "hand" \notin op'[q].doubts =>
              \A r \in Seq(STRING) : IsPrefix(r, op[q].abs) => (At(r)' = "link" => At(r) = "link")
         /\ op[q].pc = "write" /\ op'[q].linked /\ IsFile(op[q].abs) => IsFile(op[q].abs)'

\* Touching a thread leaves it what it was, or a doubt.
Touched(q, p, who, removed) ==
    /\ op'[q].pc = op[q].pc /\ op'[q].kind = op[q].kind /\ op'[q].said = op[q].said
    /\ op'[q].did = op[q].did /\ op'[q].abs = op[q].abs
    /\ op[q].doubts \subseteq op'[q].doubts /\ (op'[q].linked => op[q].linked)
    /\ IF IsPrefix(p, op[q].abs) THEN who \in op'[q].doubts /\ (removed => ~op'[q].linked)
       ELSE op'[q] = op[q]

LEMMA TouchElse ==
    ASSUME NEW ops \in [FsOps -> Op], NEW S \in SUBSET FsOps, NEW q \in S, NEW p, NEW who,
           NEW removed \in BOOLEAN, ops[q] = op[q], op' = Touch(ops, S, p, who, removed)
    PROVE  Touched(q, p, who, removed)
<1>1. op[q] \in Op
  OBVIOUS
<1>2. op'[q] = IF IsPrefix(p, op[q].abs)
               THEN [op[q] EXCEPT !.doubts = @ \cup {who}, !.linked = @ /\ ~removed] ELSE op[q]
  BY DEF Touch
<1>3. CASE IsPrefix(p, op[q].abs)
  <2> DEFINE x == [op[q] EXCEPT !.doubts = @ \cup {who}, !.linked = @ /\ ~removed]
  <2>1. /\ x.pc = op[q].pc /\ x.kind = op[q].kind /\ x.said = op[q].said /\ x.did = op[q].did
        /\ x.abs = op[q].abs /\ x.doubts = op[q].doubts \cup {who}
    BY <1>1 DEF Op
  <2>2. x.linked = (op[q].linked /\ ~removed)
    BY <1>1, Zenon DEF Op
  <2> HIDE DEF x
  <2>3. op'[q] = x
    BY <1>2, <1>3 DEF x
  <2>4. QED
    BY <1>3, <2>1, <2>2, <2>3 DEF Touched
<1>4. CASE ~IsPrefix(p, op[q].abs)
  BY <1>2, <1>4 DEF Touched
<1>5. QED
  BY <1>3, <1>4

LEMMA StepElsewhere ==
    ASSUME FsTypeOK, TreeInv, OpenInv, PathInv, NEW o \in FsOps, FsStep(o), NEW q \in FsOps \ {o}
    PROVE  Elsewhere(q)
<1>0. op \in [FsOps -> Op] /\ (op[q].pc \in AtPath => op[q].abs \in Seq(STRING))
  BY DEF FsTypeOK, PathInv, Op, Places
<1>1. CASE tree' = tree /\ op'[q] = op[q]
  BY <1>1 DEF Elsewhere, At, IsFile
<1>2. ASSUME NEW p, NEW gone \in BOOLEAN, tree' = tree \/ Changed(p, gone), Disturbs(o, p, gone)
      PROVE  Elsewhere(q)
  <2>1. Touched(q, p, "request", gone)
    <3>1. PICK ops \in [FsOps -> Op] : /\ op' = Touch(ops, FsOps \ {o}, p, "request", gone)
                                       /\ \A x \in FsOps \ {o} : ops[x] = op[x]
      BY <1>2 DEF Disturbs
    <3> DEFINE S == FsOps \ {o}
    <3>2. S \in SUBSET FsOps /\ q \in S /\ ops[q] = op[q] /\ op' = Touch(ops, S, p, "request", gone)
      BY <3>1
    <3> HIDE DEF S
    <3>3. QED
      BY <3>1, <3>2, TouchElse
  <2>2. /\ \A r : r # p => At(r)' = At(r)
        /\ \A r : At(r)' = "link" => At(r) = "link"
        /\ ~gone => \A r : IsFile(r) => IsFile(r)'
    <3>1. CASE tree' = tree
      BY <3>1 DEF At, IsFile
    <3>2. CASE Changed(p, gone)
      BY <3>2, ChangedThings DEF Changed
    <3>3. QED
      BY <1>2, <3>1, <3>2
  <2>3. ASSUME op[q].pc \in AtPath, ~IsPrefix(p, op[q].abs)
        PROVE  /\ op'[q].linked = op[q].linked /\ At(op[q].abs)' = At(op[q].abs)
               /\ IsFile(op[q].abs) => IsFile(op[q].abs)'
    <3>1. op[q].abs # p
      BY <1>0, <2>3, PrefixFacts
    <3>2. QED
      BY <2>1, <2>2, <2>3, <3>1 DEF At, IsFile, Touched
  <2>4. ASSUME op[q].pc \in AtPath, op[q].pc = "write", op'[q].linked, IsFile(op[q].abs)
        PROVE  IsFile(op[q].abs)'
    <3>1. CASE gone
      BY <2>1, <2>3, <2>4, <3>1 DEF Touched
    <3>2. CASE ~gone
      BY <2>1, <2>2, <2>4, <3>2 DEF IsFile, At, Touched
    <3>3. QED
      BY <3>1, <3>2
  <2>5. op'[q].doubts = {} => ~IsPrefix(p, op[q].abs)
    BY <2>1 DEF Touched
  <2>6. QED
    BY <2>1, <2>2, <2>3, <2>4, <2>5 DEF Elsewhere, Touched
<1>4. TRUE \in BOOLEAN /\ FALSE \in BOOLEAN
  OBVIOUS
<1>5. /\ Opens(o) => tree' = tree \/ Changed(Place(op[o].abs), FALSE)
      /\ Writes(o) => tree' = tree \/ Changed(op[o].abs, FALSE)
      /\ Removes(o) => tree' = tree \/ Changed(Spot(op[o].abs), TRUE)
  <2>1. /\ Opens(o) => ~Writes(o) /\ ~Removes(o)
        /\ Writes(o) => ~Removes(o)
    BY DEF Opens, Writes, Removes
  <2>2. QED
    BY <2>1, StepChanges
<1>6. QED
  BY <1>1, <1>2, <1>4, <1>5, OwnStep

LEMMA EditElsewhere ==
    ASSUME FsTypeOK, TreeInv, OpenInv, PathInv, NEW p \in DOMAIN Tree0, FsEdit(p), NEW q \in FsOps
    PROVE  Elsewhere(q)
<1>0. /\ op \in [FsOps -> Op] /\ (op[q].pc \in AtPath => op[q].abs \in Seq(STRING))
      /\ p \in Seq(STRING)
  BY DEF FsTypeOK, PathInv, Op, Places
<1>1. Edited(p) /\ op' = Touch(op, FsOps, p, "hand", TRUE)
  BY EditChanges
<1>2. Touched(q, p, "hand", TRUE)
  <2>1. FsOps \in SUBSET FsOps /\ TRUE \in BOOLEAN
    OBVIOUS
  <2>2. QED
    BY <1>0, <1>1, <2>1, TouchElse
<1>3. ASSUME op[q].pc \in AtPath, ~IsPrefix(p, op[q].abs), NEW r \in Seq(STRING),
             IsPrefix(r, op[q].abs)
      PROVE  At(r)' = At(r)
  <2>1. ~IsPrefix(p, r)
    BY <1>0, <1>3, PrefixFacts
  <2>2. QED
    BY <1>1, <2>1 DEF Edited
<1>4. ASSUME op[q].pc \in AtPath, ~IsPrefix(p, op[q].abs)
      PROVE  /\ op'[q].linked = op[q].linked /\ At(op[q].abs)' = At(op[q].abs)
             /\ IsFile(op[q].abs) => IsFile(op[q].abs)'
  <2>1. At(op[q].abs)' = At(op[q].abs)
    <3>1. \A a : a = op[q].abs => At(a)' = At(a)
      BY <1>0, <1>3, <1>4, PrefixFacts
    <3>2. op'[q].abs = op[q].abs
      BY <1>2 DEF Touched
    <3>3. QED
      BY <3>1, <3>2 DEF At
  <2>2. QED
    BY <1>2, <1>4, <2>1 DEF IsFile, Touched
<1>5. QED
  BY <1>2, <1>3, <1>4 DEF Elsewhere, Touched

\* A request that is put changes nothing for the others.
LEMMA AskElsewhere ==
    ASSUME FsTypeOK, NEW o \in FsOps, NEW kind, NEW path, FsAsk(o, kind, path)
    PROVE  /\ op'[o].pc = "resolve" /\ op[o].pc = "idle" /\ op'[o].kind = kind
           /\ op'[o].said = op[o].said /\ op'[o].did = op[o].did
           /\ \A q \in FsOps \ {o} : op'[q] = op[q] /\ Elsewhere(q)
           /\ tree' = tree /\ reply' = reply
<1>1. op \in [FsOps -> Op] /\ op[o] \in Op
  BY DEF FsTypeOK
<1>2. /\ op' = [op EXCEPT ![o].pc = "resolve", ![o].kind = kind, ![o].path = path]
      /\ tree' = tree /\ reply' = reply /\ op[o].pc = "idle"
  BY DEF FsAsk
<1>3. \A q \in FsOps \ {o} : op'[q] = op[q]
  BY <1>1, <1>2
<1>4. ASSUME NEW q \in FsOps \ {o} PROVE Elsewhere(q)
  <2>1. op'[q] = op[q]
    BY <1>3
  <2>2. \A r : At(r)' = At(r)
    BY <1>2 DEF At
  <2>3. At(op[q].abs)' = At(op[q].abs) /\ (IsFile(op[q].abs) => IsFile(op[q].abs)')
    BY <1>2, <2>1 DEF At, IsFile
  <2>4. QED
    BY <2>1, <2>2, <2>3 DEF Elsewhere
<1>5. QED
  BY <1>1, <1>2, <1>3, <1>4 DEF Op
-----------------------------------------------------------------------------
(* The invariant.                                                          *)

\* What a thread that went on to another step is.
LEMMA FinishedShape ==
    ASSUME FsTypeOK, NEW o \in FsOps,
           NEW x \in {Finished(o), [Finished(o) EXCEPT !.lost = TRUE],
                      [Finished(o) EXCEPT !.did = TRUE]}
    PROVE  /\ x.pc = "done" /\ x.said = op[o].said
           /\ x # [Finished(o) EXCEPT !.did = TRUE] => (x.did <=> op[o].did)
<1>1. op[o] \in Op /\ Finished(o) \in Op
  BY FinishedType DEF FsTypeOK
<1>2. /\ Finished(o).pc = "done" /\ Finished(o).said = op[o].said
      /\ Finished(o).did <=> op[o].did
  BY <1>1 DEF Finished, NoOp, Op
<1> DEFINE f == Finished(o)
<1> HIDE DEF Finished
<1>3. f.pc = "done" /\ f.said = op[o].said /\ (f.did <=> op[o].did) /\ f \in Op
  BY <1>1, <1>2
<1> HIDE DEF f
<1>4. /\ [f EXCEPT !.lost = TRUE].pc = f.pc /\ [f EXCEPT !.lost = TRUE].said = f.said
      /\ [f EXCEPT !.lost = TRUE].did <=> f.did
      /\ [f EXCEPT !.did = TRUE].pc = f.pc /\ [f EXCEPT !.did = TRUE].said = f.said
  BY <1>3 DEF Op
<1>5. x \in {f, [f EXCEPT !.lost = TRUE], [f EXCEPT !.did = TRUE]}
  BY DEF f
<1>6. CASE x = f
  BY <1>3, <1>6
<1>7. CASE x = [f EXCEPT !.lost = TRUE]
  BY <1>3, <1>4, <1>7
<1>8. CASE x = [f EXCEPT !.did = TRUE]
  BY <1>3, <1>4, <1>8 DEF f
<1>9. QED
  BY <1>5, <1>6, <1>7, <1>8

\* A thread keeps its phase as long as its place, answer and work are the same.
LEMMA PhaseStays ==
    ASSUME NEW q, Elsewhere(q), FsPhaseOK(op[q])
    PROVE  FsPhaseOK(op'[q])
  BY DEF Elsewhere, FsPhaseOK

LEMMA FsPhaseStep ==
    ASSUME FsInv, [FsNext]_fsVars
    PROVE  FsPhaseInv'
<1> USE DEF FsInv
<1>0. \A q \in FsOps : FsPhaseOK(op[q]) /\ op[q] \in Op
  BY DEF FsPhaseInv, FsTypeOK
<1>1. ASSUME NEW o \in FsOps, FsStep(o) PROVE FsPhaseInv'
  <2>1. FsPhaseOK(op'[o])
    <3>1. CASE OpEnds(o) \/ Writes(o) \/ Removes(o)
      <4>1. /\ op'[o] \in {Finished(o), [Finished(o) EXCEPT !.lost = TRUE],
                           [Finished(o) EXCEPT !.did = TRUE]}
            /\ op'[o] = [Finished(o) EXCEPT !.did = TRUE] /\ op'[o].did =>
                 op[o].said = "yes" \/ op[o].did
        <5>1. CASE Removes(o)
          BY <1>0, <5>1 DEF Removes, FsPhaseOK
        <5>2. CASE Writes(o)
          BY <1>0, <5>2 DEF Writes, FsPhaseOK
        <5>3. CASE OpEnds(o)
          <6>1. op'[o] = Finished(o)
            BY <5>3 DEF OpEnds
          <6>2. Finished(o).did <=> op[o].did
            BY <1>0 DEF Finished, NoOp, Op
          <6>3. QED
            BY <6>1, <6>2
        <5>4. QED
          BY <3>1, <5>1, <5>2, <5>3
      <4>2. /\ op'[o].pc = "done" /\ op'[o].said = op[o].said
            /\ op'[o].did => op[o].said = "yes" \/ op[o].did
        BY <4>1, FinishedShape
      <4>3. QED
        BY <1>0, <4>2 DEF FsPhaseOK
    <3>2. CASE Resolves(o)
      <4>1. /\ op'[o].pc = AfterResolve[op[o].kind] /\ op'[o].did = op[o].did
            /\ op'[o].kind = op[o].kind /\ op[o].kind \in Kinds /\ op[o].pc = "resolve"
            /\ op'[o].said = IF op[o].kind \in {"modify", "delete"} THEN "none" ELSE op[o].said
        BY <3>2 DEF Resolves
      <4>2. op[o].said = "unasked" /\ ~op[o].did
        BY <1>0, <4>1 DEF FsPhaseOK
      <4>3. QED
        BY <4>1, <4>2 DEF FsPhaseOK, AfterResolve, Kinds
    <3>3. CASE Stats(o) \/ OpAnswers(o) \/ Approves(o)
      BY <1>0, <3>3 DEF Stats, OpAnswers, Approves, Keeps, FsPhaseOK
    <3>4. CASE Opens(o)
      BY <1>0, <3>4 DEF Opens, FsPhaseOK
    <3>5. QED
      BY <1>1, <3>1, <3>2, <3>3, <3>4, OwnStep
  <2>2. \A q \in FsOps \ {o} : FsPhaseOK(op'[q])
    BY <1>0, <1>1, StepElsewhere, PhaseStays
  <2>3. QED
    BY <2>1, <2>2 DEF FsPhaseInv, FsPhaseOK
<1>2. ASSUME NEW p \in DOMAIN Tree0, FsEdit(p) PROVE FsPhaseInv'
  <2>1. \A q \in FsOps : FsPhaseOK(op'[q])
    BY <1>0, <1>2, EditElsewhere, PhaseStays
  <2>2. QED
    BY <2>1 DEF FsPhaseInv, FsPhaseOK
<1>3. ASSUME NEW o \in FsOps, NEW kind, NEW path, FsAsk(o, kind, path) PROVE FsPhaseInv'
  <2>1. \A q \in FsOps : FsPhaseOK(op'[q])
    <3>1. FsPhaseOK(op'[o])
      BY <1>0, <1>3, AskElsewhere DEF FsPhaseOK
    <3>2. QED
      BY <1>0, <1>3, <3>1, AskElsewhere
  <2>2. QED
    BY <2>1 DEF FsPhaseInv, FsPhaseOK
<1>4. CASE UNCHANGED fsVars
  BY <1>4 DEF fsVars, FsPhaseInv, FsPhaseOK
<1>5. QED
  BY <1>1, <1>2, <1>3, <1>4 DEF FsNext

\* An open file that has its name is there.
LEMMA OpenStep ==
    ASSUME FsInv, [FsNext]_fsVars
    PROVE  OpenInv'
<1> USE DEF FsInv
<1>1. ASSUME NEW q \in FsOps, Elsewhere(q), (op[q].pc = "write" /\ op[q].linked)'
      PROVE  IsFile(op[q].abs)'
  <2>1. op[q].pc = "write" /\ op[q].linked /\ op'[q].linked /\ op[q].pc \in AtPath
    BY <1>1 DEF Elsewhere, AtPath
  <2>2. IsFile(op[q].abs)
    BY <2>1 DEF OpenInv
  <2>3. QED
    BY <1>1, <2>1, <2>2 DEF Elsewhere
<1>2. ASSUME NEW o \in FsOps, FsStep(o), (op[o].pc = "write" /\ op[o].linked)'
      PROVE  IsFile(op[o].abs)'
  <2>1. Opens(o)
    <3>1. ASSUME OpEnds(o) \/ Writes(o) \/ Removes(o) PROVE op'[o].pc = "done"
      BY <3>1, FinishedShape DEF OpEnds, Writes, Removes
    <3>2. ASSUME Resolves(o) PROVE op'[o].pc # "write"
      BY <3>2 DEF Resolves, AfterResolve, Kinds
    <3>3. ASSUME Stats(o) \/ OpAnswers(o) \/ Approves(o) PROVE op'[o].pc # "write"
      BY <3>3 DEF Stats, OpAnswers, Approves
    <3>4. QED
      BY <1>2, <3>1, <3>2, <3>3, OwnStep
  <2>2. At(op[o].abs)' = ""
    BY <2>1 DEF Opens, At
  <2>3. QED
    BY <2>2 DEF IsFile
<1>3. ASSUME NEW o \in FsOps, FsStep(o) PROVE OpenInv'
  <2>1. \A q \in FsOps \ {o} : Elsewhere(q)
    BY <1>3, StepElsewhere
  <2>2. ASSUME NEW q \in FsOps, (op[q].pc = "write" /\ op[q].linked)' PROVE IsFile(op[q].abs)'
    BY <1>1, <1>2, <1>3, <2>1, <2>2
  <2>3. QED
    BY <2>2 DEF OpenInv
<1>4. ASSUME NEW p \in DOMAIN Tree0, FsEdit(p) PROVE OpenInv'
  <2>1. \A q \in FsOps : Elsewhere(q)
    BY <1>4, EditElsewhere
  <2>2. QED
    BY <1>1, <2>1 DEF OpenInv
<1>5. ASSUME NEW o \in FsOps, NEW kind, NEW path, FsAsk(o, kind, path) PROVE OpenInv'
  <2>1. op'[o].pc # "write" /\ \A q \in FsOps \ {o} : Elsewhere(q)
    BY <1>5, AskElsewhere
  <2>2. QED
    BY <1>1, <2>1 DEF OpenInv
<1>6. CASE UNCHANGED fsVars
  BY <1>6 DEF fsVars, OpenInv, IsFile, At
<1>7. QED
  BY <1>3, <1>4, <1>5, <1>6 DEF FsNext
\* A path without doubts is inside, and leads through no link.
LEMMA PathStep ==
    ASSUME FsInv, [FsNext]_fsVars
    PROVE  PathInv'
<1> USE DEF FsInv
<1> DEFINE Good(q) == op[q].pc \in AtPath =>
                        /\ op[q].abs # Nowhere
                        /\ Sure(op[q]) => IsPrefix(Root, op[q].abs) /\ Clear(op[q].abs)
<1>0. /\ \A q \in FsOps : Good(q) /\ op[q] \in Op
      /\ (\A q \in FsOps : Good(q)') => PathInv'
  BY DEF PathInv, FsTypeOK
<1> HIDE DEF Good
<1>1. ASSUME NEW q \in FsOps, Elsewhere(q) PROVE Good(q)'
  <2> SUFFICES ASSUME op'[q].pc \in AtPath
               PROVE  /\ op'[q].abs # Nowhere
                      /\ Sure(op'[q]) => IsPrefix(Root, op'[q].abs) /\ Clear(op[q].abs)'
    BY DEF Good
  <2>1. /\ op[q].pc \in AtPath /\ op'[q].abs = op[q].abs /\ op[q].doubts \subseteq op'[q].doubts
        /\ "hand" \notin op'[q].doubts =>
             \A r \in Seq(STRING) : IsPrefix(r, op[q].abs) => (At(r)' = "link" => At(r) = "link")
    BY <1>1 DEF Elsewhere
  <2>2. /\ op[q].abs # Nowhere
        /\ Sure(op[q]) => IsPrefix(Root, op[q].abs) /\ Clear(op[q].abs)
    BY <1>0, <2>1 DEF Good
  <2>3. ASSUME Sure(op'[q]) PROVE IsPrefix(Root, op'[q].abs) /\ Clear(op[q].abs)'
    <3>1. Sure(op[q]) /\ "hand" \notin op'[q].doubts
      BY <2>1, <2>3 DEF Sure
    <3>2. \A r \in Seq(STRING) : IsPrefix(r, op[q].abs) => At(r)' # "link"
      BY <2>1, <2>2, <3>1 DEF Clear
    <3>3. QED
      BY <2>1, <2>2, <3>1, <3>2 DEF Clear
  <2>4. QED
    BY <2>1, <2>2, <2>3
<1>2. ASSUME NEW o \in FsOps, FsStep(o) PROVE Good(o)'
  <2>1. CASE OpEnds(o) \/ Writes(o) \/ Removes(o)
    <3>1. op'[o].pc = "done"
      BY <2>1, FinishedShape DEF OpEnds, Writes, Removes
    <3>2. QED
      BY <3>1 DEF Good, AtPath
  <2>2. CASE Resolves(o)
    <3>1. PICK r : /\ r = fs_resolve(op[o].path, op[o].kind = "create") /\ r # Nowhere
                   /\ op[o].path \in Seq(STRING) /\ op'[o].abs = r /\ tree' = tree
                   /\ op'[o].doubts = IF At(r) = "link" THEN {"link"} ELSE {}
      BY <2>2 DEF Resolves
    <3>2. IsPrefix(Root, r) /\ (At(r) # "link" => Clear(r))
      <4>1. (op[o].kind = "create") \in BOOLEAN
        OBVIOUS
      <4>2. QED
        BY <3>1, <4>1, ResolvedInside
    <3>3. Sure(op'[o]) => At(r) # "link"
      BY <3>1 DEF Sure
    <3>4. Clear(r) => Clear(op[o].abs)'
      BY <3>1 DEF Clear, At
    <3>5. QED
      BY <3>1, <3>2, <3>3, <3>4 DEF Good
  <2>3. CASE Stats(o) \/ OpAnswers(o) \/ Approves(o)
    <3>1. /\ tree' = tree /\ op'[o].abs = op[o].abs /\ op[o].pc \in AtPath
          /\ Sure(op'[o]) => Sure(op[o])
      BY <2>3 DEF Stats, OpAnswers, Approves, Keeps, AtPath, Sure
    <3>2. Clear(op[o].abs) => Clear(op[o].abs)'
      BY <3>1 DEF Clear, At
    <3>3. QED
      BY <1>0, <3>1, <3>2 DEF Good
  <2>4. CASE Opens(o)
    <3> DEFINE p == Place(op[o].abs)
    <3>1. /\ op[o].pc \in AtPath /\ op'[o].abs = p /\ p # Nowhere
          /\ Sure(op'[o]) => Sure(op[o])
      BY <2>4 DEF Opens, AtPath, Sure
    <3>2. /\ op[o].abs \in Places
          /\ Sure(op[o]) => IsPrefix(Root, op[o].abs) /\ Clear(op[o].abs)
      BY <1>0, <3>1 DEF Good, Op
    <3>3. ASSUME Sure(op[o]) PROVE p = op[o].abs /\ Clear(op[o].abs)'
      <4>1. p = op[o].abs
        BY <3>1, <3>2, <3>3, PlaceClear
      <4>2. tree' = tree \/ Changed(p, FALSE)
        <5>1. ~Writes(o) /\ ~Removes(o)
          BY <2>4 DEF Opens, Writes, Removes
        <5>2. QED
          BY <1>2, <5>1, StepChanges
      <4>3. \A r : At(r)' = "link" => At(r) = "link"
        <5> HIDE DEF p
        <5>1. CASE tree' = tree
          BY <5>1 DEF At
        <5>2. CASE Changed(p, FALSE)
          BY <5>2, ChangedThings
        <5>3. QED
          BY <4>2, <5>1, <5>2
      <4>4. op'[o].abs = op[o].abs
        BY <3>1, <4>1
      <4>5. \A r \in Seq(STRING) : IsPrefix(r, op[o].abs) => At(r)' # "link"
        BY <3>2, <3>3, <4>3 DEF Clear
      <4>6. QED
        BY <4>1, <4>4, <4>5 DEF Clear
    <3> HIDE DEF p
    <3>4. QED
      BY <3>1, <3>2, <3>3 DEF Good
  <2>5. QED
    BY <1>2, <2>1, <2>2, <2>3, <2>4, OwnStep
<1>3. ASSUME NEW o \in FsOps, FsStep(o) PROVE PathInv'
  BY <1>0, <1>1, <1>2, <1>3, StepElsewhere
<1>4. ASSUME NEW p \in DOMAIN Tree0, FsEdit(p) PROVE PathInv'
  BY <1>0, <1>1, <1>4, EditElsewhere
<1>5. ASSUME NEW o \in FsOps, NEW kind, NEW path, FsAsk(o, kind, path) PROVE PathInv'
  <2>1. Good(o)'
    BY <1>5, AskElsewhere DEF Good, AtPath
  <2>2. QED
    BY <1>0, <1>1, <1>5, <2>1, AskElsewhere
<1>6. CASE UNCHANGED fsVars
  BY <1>6 DEF fsVars, PathInv, Clear, At
<1>7. QED
  BY <1>3, <1>4, <1>5, <1>6 DEF FsNext

\* What was checked stands, and a file opened is empty, as long as there are
\* no doubts.
LEMMA StandStep ==
    ASSUME FsInv, [FsNext]_fsVars
    PROVE  StandInv'
<1> USE DEF FsInv
<1> DEFINE Checked(q) == op[q].pc \in {"ask", "open", "remove"} /\ op[q].doubts = {} =>
                           IF op[q].kind = "create" THEN At(op[q].abs) = "missing"
                           ELSE At(op[q].abs) # "missing" \/ op[q].abs = Root
           Emptied(q) == op[q].pc = "write" /\ op[q].doubts = {} =>
                           op[q].linked /\ At(op[q].abs) = ""
           Good(q) == Checked(q) /\ Emptied(q)
<1>0. /\ \A q \in FsOps : Good(q) /\ op[q] \in Op
      /\ (\A q \in FsOps : Good(q)') => StandInv'
  BY DEF StandInv, CheckStands, FsTypeOK
<1> HIDE DEF Good
<1>1. ASSUME NEW q \in FsOps, Elsewhere(q) PROVE Good(q)'
  <2>1. /\ op'[q].pc = op[q].pc /\ op'[q].kind = op[q].kind /\ op'[q].abs = op[q].abs
        /\ op[q].doubts \subseteq op'[q].doubts
        /\ op[q].pc \in AtPath /\ op'[q].doubts = {} =>
             op'[q].linked = op[q].linked /\ At(op[q].abs)' = At(op[q].abs)
    BY <1>1 DEF Elsewhere
  <2>2. /\ op'[q].doubts = {} => op[q].doubts = {}
        /\ op[q].pc \in {"ask", "open", "remove", "write"} => op[q].pc \in AtPath
    BY <2>1 DEF AtPath
  <2>3. Checked(q)'
    BY <1>0, <2>1, <2>2 DEF Good
  <2>4. Emptied(q)'
    BY <1>0, <2>1, <2>2 DEF Good
  <2>5. QED
    BY <2>3, <2>4 DEF Good
<1>2. ASSUME NEW o \in FsOps, FsStep(o) PROVE Good(o)'
  <2>1. CASE OpEnds(o) \/ Writes(o) \/ Removes(o)
    <3>1. op'[o].pc = "done"
      BY <2>1, FinishedShape DEF OpEnds, Writes, Removes
    <3>2. QED
      BY <3>1 DEF Good
  <2>2. CASE Resolves(o)
    <3>1. PICK r : /\ r = fs_resolve(op[o].path, op[o].kind = "create") /\ r # Nowhere
                   /\ op[o].path \in Seq(STRING) /\ op[o].kind \in Kinds
                   /\ op'[o].abs = r /\ tree' = tree /\ op'[o].kind = op[o].kind
                   /\ op'[o].pc = AfterResolve[op[o].kind]
      BY <2>2 DEF Resolves
    <3>2. op[o].kind # "create" => At(r) # "missing" \/ r = Root
      <4>1. (op[o].kind = "create") \in BOOLEAN
        OBVIOUS
      <4>2. QED
        BY <3>1, <4>1, ResolvedInside
    <3>3. /\ op'[o].pc \notin {"open", "remove", "write"}
          /\ op'[o].pc = "ask" => op'[o].kind # "create"
      BY <3>1 DEF AfterResolve, Kinds
    <3>4. At(op[o].abs)' = At(r)
      BY <3>1 DEF At
    <3>5. QED
      BY <3>1, <3>2, <3>3, <3>4 DEF Good
  <2>3. CASE Stats(o)
    <3>1. /\ op'[o].pc = "ask" /\ op'[o].kind = op[o].kind /\ op'[o].abs = op[o].abs
          /\ tree' = tree /\ op'[o].doubts = op[o].doubts \ {"request"}
          /\ ~Exists(op[o].abs) /\ op[o].pc = "stat"
      BY <2>3 DEF Stats, Keeps
    <3>2. op[o].kind = "create" /\ op[o].abs \in Places
      BY <1>0, <3>1 DEF FsPhaseInv, FsPhaseOK, PathInv, AtPath, Op
    <3>3. ASSUME op'[o].doubts = {} PROVE At(op[o].abs) = "missing"
      <4>1. Sure(op[o])
        BY <3>1, <3>3 DEF Sure
      <4>2. Clear(op[o].abs)
        BY <3>1, <4>1 DEF PathInv, AtPath
      <4>3. QED
        BY <3>1, <3>2, <4>2, PlaceClear DEF Exists
    <3>4. At(op[o].abs)' = At(op[o].abs)
      BY <3>1 DEF At
    <3>5. QED
      BY <3>1, <3>2, <3>3, <3>4 DEF Good
  <2>4. CASE OpAnswers(o) \/ Approves(o)
    <3>1. /\ op'[o].pc \in {"ask", "open", "remove"} /\ op[o].pc = "ask"
          /\ op'[o].kind = op[o].kind /\ op'[o].abs = op[o].abs
          /\ tree' = tree /\ op'[o].doubts = op[o].doubts
      BY <2>4 DEF OpAnswers, Approves, Keeps
    <3>2. At(op[o].abs)' = At(op[o].abs)
      BY <3>1 DEF At
    <3>3. Checked(o)
      BY <1>0 DEF Good
    <3>4. QED
      BY <3>1, <3>2, <3>3 DEF Good
  <2>5. CASE Opens(o)
    <3>1. op'[o].pc = "write" /\ op'[o].linked /\ At(op[o].abs)' = ""
      BY <2>5 DEF Opens, At
    <3>2. QED
      BY <3>1 DEF Good
  <2>6. QED
    BY <1>2, <2>1, <2>2, <2>3, <2>4, <2>5, OwnStep
<1>3. ASSUME NEW o \in FsOps, FsStep(o) PROVE StandInv'
  BY <1>0, <1>1, <1>2, <1>3, StepElsewhere
<1>4. ASSUME NEW p \in DOMAIN Tree0, FsEdit(p) PROVE StandInv'
  BY <1>0, <1>1, <1>4, EditElsewhere
<1>5. ASSUME NEW o \in FsOps, NEW kind, NEW path, FsAsk(o, kind, path) PROVE StandInv'
  <2>1. Good(o)'
    BY <1>5, AskElsewhere DEF Good
  <2>2. QED
    BY <1>0, <1>1, <1>5, <2>1, AskElsewhere
<1>6. CASE UNCHANGED fsVars
  BY <1>6 DEF fsVars, StandInv, CheckStands, At
<1>7. QED
  BY <1>3, <1>4, <1>5, <1>6 DEF FsNext
\* A request without an end has no reply yet.
LEMMA ReplyStep ==
    ASSUME FsInv, [FsNext]_fsVars
    PROVE  ReplyInv'
<1> USE DEF FsInv
<1>0. reply \in [FsOps -> Answer] /\ op \in [FsOps -> Op]
  BY DEF FsTypeOK, Answer
<1>1. ASSUME NEW o \in FsOps, FsStep(o) PROVE ReplyInv'
  <2>1. Says(o) /\ op[o].pc # "done"
    <3>1. op[o].pc # "done"
      BY <1>1 DEF FsStep, FsResolve, FsStat, FsAnswer, FsApproval, FsOpen, FsWrite, FsRemove,
                  FsRead, FsList
    <3>2. QED
      BY <1>1, <3>1, StepSays
  <2>2. \A q \in FsOps \ {o} : op'[q].pc = op[q].pc /\ reply'[q] = reply[q]
    BY <1>0, <1>1, <2>1, StepElsewhere DEF Elsewhere, Says
  <2>3. op'[o].pc # "done" => reply'[o] = reply[o]
    BY <2>1 DEF Says
  <2>4. QED
    BY <2>1, <2>2, <2>3 DEF ReplyInv, Sent
<1>2. ASSUME NEW p \in DOMAIN Tree0, FsEdit(p) PROVE ReplyInv'
  <2>1. reply' = reply /\ \A q \in FsOps : op'[q].pc = op[q].pc
    BY <1>2, EditElsewhere, EditChanges DEF Elsewhere
  <2>2. QED
    BY <2>1 DEF ReplyInv, Sent
<1>3. ASSUME NEW o \in FsOps, NEW kind, NEW path, FsAsk(o, kind, path) PROVE ReplyInv'
  BY <1>3, AskElsewhere DEF ReplyInv, Sent
<1>4. CASE UNCHANGED fsVars
  BY <1>4 DEF fsVars, ReplyInv, Sent
<1>5. QED
  BY <1>1, <1>2, <1>3, <1>4 DEF FsNext

LEMMA FsInvInit ==
    ASSUME FsInit
    PROVE  FsInv
<1>1. FsTypeOK
  <2>1. NoOp \in Op
    BY DEF NoOp, Op, Kinds
  <2>2. op \in [FsOps -> Op]
    BY <2>1 DEF FsInit
  <2>3. tree \in [DOMAIN tree -> Things] /\ DOMAIN tree = DOMAIN Tree0
        /\ DOMAIN Tree0 \subseteq Places \ {Nowhere}
    BY FsAssumption DEF FsInit, FsAssumption, Things, Texts, FixedTexts
  <2>4. Sent("none") \in [st : {"none", "ok", "error"}, text : SUBSET Texts,
                          entries : SUBSET DOMAIN tree]
    BY DEF Sent
  <2>5. reply \in [FsOps -> [st : {"none", "ok", "error"}, text : SUBSET Texts,
                             entries : SUBSET DOMAIN tree]]
    BY <2>4 DEF FsInit
  <2>6. edits \in 0..MaxEdits
    BY FsAssumption DEF FsInit, FsAssumption
  <2>7. QED
    BY <2>2, <2>3, <2>5, <2>6 DEF FsTypeOK
<1>2. \A o \in FsOps : op[o].pc = "idle" /\ op[o].said = "unasked" /\ ~op[o].did
  BY DEF FsInit, NoOp
<1>3. TreeInv
  <2>1. /\ \A p \in DOMAIN tree : At(p) # "missing" => IsDir(Parent(p))
        /\ \A p \in DOMAIN tree : At(p) = "link" => p \in DOMAIN LeadsTo
        /\ \A p \in DOMAIN tree : At(p) = "outside" => ~IsPrefix(Root, p)
    BY FsAssumption DEF FsInit, FsAssumption, At, IsDir
  <2>2. \A p \in DOMAIN tree : p \in Seq(STRING)
    BY <1>1 DEF FsTypeOK, Places
  <2>3. Clear(Root)
    <3>1. At(Root) = "dir"
      BY FsAssumption DEF FsInit, FsAssumption, At
    <3>2. QED
      BY <1>1, <2>1, <3>1, DirsAbove
  <2>4. QED
    BY <2>1, <2>3 DEF TreeInv
<1>4. QED
  BY <1>1, <1>2, <1>3 DEF FsInv, FsPhaseInv, FsPhaseOK, OpenInv, PathInv, AtPath, StandInv,
                          CheckStands, ReplyInv, FsInit

LEMMA FsInvariance == FsSpec => []FsInv
<1>1. FsInit => FsInv
  BY FsInvInit
<1>2. FsInv /\ [FsNext]_fsVars => FsInv'
  <2> SUFFICES ASSUME FsInv, [FsNext]_fsVars PROVE FsInv'
    OBVIOUS
  <2>1. FsTypeOK' /\ TreeInv'
    BY FsTypesStep, TreeStep DEF FsInv
  <2>2. FsPhaseInv' /\ OpenInv' /\ PathInv' /\ StandInv' /\ ReplyInv'
    BY FsPhaseStep, OpenStep, PathStep, StandStep, ReplyStep
  <2>3. QED
    BY <2>1, <2>2 DEF FsInv
<1>3. QED
  BY <1>1, <1>2, PTL DEF FsSpec
-----------------------------------------------------------------------------
(* What the worker promises.                                               *)

\* The worker's threads, replies and files always have their types (fs_worker.c).
THEOREM FsTypeCorrect == FsSpec => []FsTypeOK
<1>1. FsInv => FsTypeOK
  BY DEF FsInv
<1>2. QED
  BY <1>1, FsInvariance, PTL

\* What was checked before the user is asked stands until the file is opened
\* or removed, as long as neither the user nor another request changed
\* anything on the path and no link ends it (fs_worker.c:319-343, 441-448).
THEOREM CheckKept == FsSpec => []CheckStands
<1>1. FsInv => CheckStands
  BY DEF FsInv, StandInv
<1>2. QED
  BY <1>1, FsInvariance, PTL

\* A path that a request is sure of.
LEMMA SurePath ==
    ASSUME FsInv, NEW o \in FsOps, op[o].pc \in AtPath, Sure(op[o])
    PROVE  /\ op[o].abs \in Places /\ IsPrefix(Root, op[o].abs)
           /\ Spot(op[o].abs) \in {op[o].abs, Nowhere}
           /\ Place(op[o].abs) \in {op[o].abs, Nowhere}
<1>1. op[o] \in Op /\ op[o].abs # Nowhere /\ IsPrefix(Root, op[o].abs) /\ Clear(op[o].abs)
  BY DEF FsInv, FsTypeOK, PathInv
<1>2. op[o].abs \in Places
  BY <1>1 DEF Op
<1>3. QED
  BY <1>1, <1>2, PlaceClear DEF FsInv

\* No request changes, reads or lists anything outside the sandbox, for any
\* sandbox, any requested path and any links, dangling ones among them, as
\* long as nobody changed its path by hand since it was resolved and no link
\* was the last name of it then (fs_worker.c:68-103).
THEOREM Confined == FsSpec => InsideSandbox
<1> DEFINE Kept(o) ==
             op'[o].pc # op[o].pc /\ op[o].doubts \cap {"hand", "link"} = {} =>
               /\ \A p \in DOMAIN tree' :
                    ~IsPrefix(Root, p) => p \in DOMAIN tree /\ tree'[p] = tree[p]
               /\ "outside" \notin reply'[o].text
               /\ \A q \in reply'[o].entries : IsPrefix(Root, q)
<1>1. ASSUME FsInv, [FsNext]_fsVars, NEW o \in FsOps PROVE Kept(o)
  <2> USE <1>1
  <2>0. /\ op \in [FsOps -> Op] /\ reply \in [FsOps -> Answer]
        /\ op[o].pc # "done" => reply[o].text = {} /\ reply[o].entries = {}
    BY DEF FsInv, FsTypeOK, Answer, ReplyInv, Sent
  <2>1. CASE op'[o].pc = op[o].pc \/ ~Sure(op[o])
    BY <2>1 DEF Sure
  <2>2. ASSUME FsStep(o), Sure(op[o]) PROVE Kept(o)
    <3>1. \/ tree' = tree
          \/ \E p : /\ \A q \in DOMAIN tree' : q # p => q \in DOMAIN tree /\ tree'[q] = tree[q]
                    /\ IsPrefix(Root, p)
      <4>1. ASSUME NEW p, NEW gone \in BOOLEAN, Changed(p, gone)
            PROVE  \A q \in DOMAIN tree' : q # p => q \in DOMAIN tree /\ tree'[q] = tree[q]
        <5>1. DOMAIN tree' = DOMAIN tree \cup {p} /\ \A r : r # p => At(r)' = At(r)
          BY <4>1 DEF Changed
        <5>2. QED
          BY <5>1 DEF At
      <4>2. ASSUME op[o].pc \in {"open", "write", "remove"}
            PROVE  /\ IsPrefix(Root, op[o].abs)
                   /\ Place(op[o].abs) # Nowhere => Place(op[o].abs) = op[o].abs
                   /\ Spot(op[o].abs) # Nowhere => Spot(op[o].abs) = op[o].abs
        BY <2>2, <4>2, SurePath DEF AtPath
      <4>3. ASSUME NEW p, NEW gone, Changed(p, gone) PROVE p # Nowhere
        BY <4>3 DEF Changed
      <4>4. /\ Opens(o) => op[o].pc = "open"
            /\ Writes(o) => op[o].pc = "write"
            /\ Removes(o) => op[o].pc = "remove"
        BY DEF Opens, Writes, Removes
      <4>5. QED
        BY <2>2, <4>1, <4>2, <4>3, <4>4, StepChanges DEF FsInv
    <3>2. "outside" \notin reply'[o].text /\ \A q \in reply'[o].entries : IsPrefix(Root, q)
      <4>0. Says(o) /\ op[o].pc # "done"
        <5>1. op[o].pc # "done"
          BY <2>2 DEF FsStep, FsResolve, FsStat, FsAnswer, FsApproval, FsOpen, FsWrite, FsRemove,
                      FsRead, FsList
        <5>2. QED
          BY <2>2, <5>1, StepSays DEF FsInv
      <4>1. CASE reply' = reply
        BY <2>0, <4>0, <4>1
      <4>2. ASSUME NEW sent, reply' = [reply EXCEPT ![o] = sent],
                   "outside" \notin sent.text, \A q \in sent.entries : IsPrefix(Root, q)
            PROVE  "outside" \notin reply'[o].text /\ \A q \in reply'[o].entries : IsPrefix(Root, q)
        <5>1. reply'[o] = sent
          BY <2>0, <4>2
        <5>2. QED
          BY <4>2, <5>1
      <4>3. CASE \E st : reply' = [reply EXCEPT ![o] = Sent(st)]
        <5>1. \A st : Sent(st).text = {} /\ Sent(st).entries = {}
          BY DEF Sent
        <5>2. PICK st : reply' = [reply EXCEPT ![o] = Sent(st)]
          BY <4>3
        <5>3. "outside" \notin Sent(st).text /\ \A q \in Sent(st).entries : IsPrefix(Root, q)
          BY <5>1
        <5>4. QED
          BY <4>2, <5>2, <5>3
      <4>4. CASE FsRead(o)
        <5> DEFINE p == Place(op[o].abs)
        <5>1. op[o].pc \in AtPath
          BY <4>4 DEF FsRead, AtPath
        <5>2. IsFile(p) => p = op[o].abs
          BY <2>2, <5>1, SurePath, ThereIsAPlace DEF FsInv, IsFile
        <5>3. IsFile(p) => At(p) # "outside"
          <6>1. IsFile(p) => p \in DOMAIN tree /\ IsPrefix(Root, p)
            BY <2>2, <5>1, <5>2, SurePath, ThereIsAPlace DEF FsInv, IsFile
          <6>2. QED
            BY <6>1 DEF FsInv, TreeInv
        <5> HIDE DEF p
        <5>4. \/ IsFile(p) /\ reply' = [reply EXCEPT ![o] = [Sent("ok") EXCEPT !.text = {At(p)}]]
              \/ reply' = [reply EXCEPT ![o] = [Sent("ok") EXCEPT !.text = {""}]]
              \/ reply' = [reply EXCEPT ![o] = Sent("error")]
          BY <4>4 DEF FsRead, EndWith, Refuse, Reply, p
        <5>5. /\ [Sent("ok") EXCEPT !.text = {At(p)}].text = {At(p)}
              /\ [Sent("ok") EXCEPT !.text = {At(p)}].entries = {}
              /\ [Sent("ok") EXCEPT !.text = {""}].text = {""}
              /\ [Sent("ok") EXCEPT !.text = {""}].entries = {}
          BY DEF Sent
        <5>6. QED
          BY <4>2, <4>3, <5>3, <5>4, <5>5
      <4>5. CASE FsList(o)
        <5> DEFINE p == Place(op[o].abs)
        <5>1. op[o].pc \in AtPath
          BY <4>5 DEF FsList, AtPath
        <5>2. IsDir(p) => p = op[o].abs /\ p \in Seq(STRING) /\ IsPrefix(Root, p)
          <6>1. p \in {op[o].abs, Nowhere} /\ op[o].abs \in Places /\ IsPrefix(Root, op[o].abs)
            BY <2>2, <5>1, SurePath
          <6>2. ~IsDir(Nowhere)
            BY ThereIsAPlace DEF FsInv
          <6>3. QED
            BY <6>1, <6>2 DEF Places
        <5>3. IsDir(p) => \A q \in Entries(p) : IsPrefix(Root, q)
          <6>1. ASSUME IsDir(p), NEW q \in Entries(p) PROVE IsPrefix(Root, q)
            <7>1. q \in DOMAIN tree /\ q # <<>> /\ Front(q) = p
              BY <6>1 DEF Entries, Inside
            <7>2. q \in Seq(STRING) /\ Root \in Seq(STRING)
              BY <7>1, FsAssumption DEF FsInv, FsTypeOK, Places, FsAssumption
            <7>3. IsPrefix(p, q)
              BY <7>1, <7>2, FrontAndLast
            <7> HIDE DEF p
            <7>4. QED
              BY <5>2, <6>1, <7>2, <7>3, PrefixFacts
          <6>2. QED
            BY <6>1
        <5> HIDE DEF p
        <5>4. \/ /\ IsDir(p)
                 /\ reply' = [reply EXCEPT ![o] = [Sent("ok") EXCEPT !.entries = Entries(p)]]
              \/ reply' = [reply EXCEPT ![o] = Sent("error")]
          BY <4>5 DEF FsList, EndWith, Refuse, Reply, p
        <5>5. /\ [Sent("ok") EXCEPT !.entries = Entries(p)].text = {}
              /\ [Sent("ok") EXCEPT !.entries = Entries(p)].entries = Entries(p)
          BY DEF Sent
        <5>6. QED
          BY <4>2, <4>3, <5>3, <5>4, <5>5
      <4>6. CASE ~FsRead(o) /\ ~FsList(o)
        <5>1. \/ reply' = reply
              \/ reply' = [reply EXCEPT ![o] = Sent("ok")]
              \/ reply' = [reply EXCEPT ![o] = Sent("error")]
          BY <2>2, <4>6 DEF FsStep, FsResolve, FsStat, FsAnswer, FsApproval, FsOpen, FsWrite,
                            FsRemove, Refuse, EndWith, Reply
        <5>2. QED
          BY <4>1, <4>3, <5>1
      <4>7. QED
        BY <4>4, <4>5, <4>6
    <3>3. QED
      BY <3>1, <3>2
  <2>3. ASSUME NEW x \in FsOps, FsStep(x), x # o PROVE op'[o].pc = op[o].pc
    BY <2>3, StepElsewhere DEF Elsewhere, FsInv
  <2>4. ASSUME NEW p \in DOMAIN Tree0, FsEdit(p) PROVE op'[o].pc = op[o].pc
    BY <2>4, EditElsewhere DEF Elsewhere, FsInv
  <2>5. ASSUME NEW x \in FsOps, NEW kind, NEW path, FsAsk(x, kind, path), Sure(op[o]) PROVE Kept(o)
    <3>1. tree' = tree /\ reply' = reply /\ (op'[o].pc = op[o].pc \/ op[o].pc = "idle")
      BY <2>5, AskElsewhere DEF FsInv, Elsewhere
    <3>2. QED
      BY <2>0, <3>1
  <2>6. CASE UNCHANGED fsVars
    BY <2>6 DEF fsVars
  <2> HIDE DEF Kept
  <2>7. QED
    BY <2>1, <2>2, <2>3, <2>4, <2>5, <2>6 DEF FsNext
<1>2. FsInv /\ [FsNext]_fsVars => \A o \in FsOps : Kept(o)
  BY <1>1
<1>3. QED
  BY <1>2, FsInvariance, PTL DEF FsSpec, InsideSandbox

\* A reply of success to a mutating operation means that it was done in whole:
\* fwrite took all it was given, or the file is gone, unless there is a doubt
\* about the path or fclose lost the text (fs_worker.c:146-155, 448).  That
\* what it was given is the text of the request is not so.
THEOREM SuccessIsWhole == FsSpec => OkMeansWhole
<1> DEFINE Whole(o) ==
             reply[o].st = "none" /\ reply'[o].st = "ok" /\ op[o].doubts = {} /\ ~op'[o].lost =>
               /\ op[o].pc = "write"  => tree'[op[o].abs] \in {o, "garbage"}
               /\ op[o].pc = "remove" => tree'[op[o].abs] = "missing"
<1>1. ASSUME FsInv, [FsNext]_fsVars, NEW o \in FsOps PROVE Whole(o)
  <2> USE <1>1
  <2>0. /\ op \in [FsOps -> Op] /\ reply \in [FsOps -> Answer]
        /\ tree \in [DOMAIN tree -> Things]
    BY DEF FsInv, FsTypeOK, Answer
  <2>1. CASE reply'[o] = reply[o]
    BY <2>1
  <2>2. CASE FsWrite(o) /\ op[o].doubts = {}
    <3>1. op[o].linked /\ At(op[o].abs) = "" /\ op[o].abs \in DOMAIN tree
      <4>1. op[o].linked /\ At(op[o].abs) = ""
        BY <2>2 DEF FsWrite, FsInv, StandInv
      <4>2. QED
        BY <4>1, ThereIsAPlace DEF FsInv
    <3>2. ASSUME NEW text \in Written(o), tree' = PutText(o, text)
          PROVE  tree'[op[o].abs] \in {o, "garbage"}
      <4>1. text \in {o, "garbage"}
        BY <3>1, <3>2 DEF Written
      <4>2. tree'[op[o].abs] = text
        BY <2>0, <3>1, <3>2 DEF PutText
      <4>3. QED
        BY <4>1, <4>2
    <3>3. reply' = [reply EXCEPT ![o] = Sent("error")] => reply'[o].st = "error"
      BY <2>0 DEF Sent
    <3>4. op' = Touch([op EXCEPT ![o] = [Finished(o) EXCEPT !.lost = TRUE]],
                      FsOps \ {o}, op[o].abs, "request", FALSE) => op'[o].lost
      <4>1. [Finished(o) EXCEPT !.lost = TRUE] \in Op
        BY FinishedType DEF FsInv
      <4>2. [Finished(o) EXCEPT !.lost = TRUE].lost
        BY DEF Finished, NoOp
      <4>3. ASSUME NEW x \in Op, op' = Touch([op EXCEPT ![o] = x], FsOps \ {o}, op[o].abs,
                                             "request", FALSE)
            PROVE  op'[o] = x
        BY <4>3, TouchShape DEF FsInv
      <4>4. QED
        BY <4>1, <4>2, <4>3
    <3>5. \/ \E text \in Written(o) : tree' = PutText(o, text)
          \/ reply' = [reply EXCEPT ![o] = Sent("error")]
          \/ op' = Touch([op EXCEPT ![o] = [Finished(o) EXCEPT !.lost = TRUE]],
                         FsOps \ {o}, op[o].abs, "request", FALSE)
      BY <2>2 DEF FsWrite, Reply
    <3>6. op[o].pc = "write"
      BY <2>2 DEF FsWrite
    <3>7. QED
      BY <3>2, <3>3, <3>4, <3>5, <3>6
  <2>3. CASE FsRemove(o) /\ op[o].doubts = {}
    <3> DEFINE p == Spot(op[o].abs)
    <3>1. op[o].pc = "remove" /\ p \in {op[o].abs, Nowhere}
      <4>1. op[o].pc = "remove" /\ op[o].pc \in AtPath /\ Sure(op[o])
        BY <2>3 DEF FsRemove, AtPath, Sure
      <4>2. QED
        BY <4>1, SurePath
    <3>2. \/ At(p) # "missing" /\ tree' = [tree EXCEPT ![p] = "missing"]
          \/ reply' = [reply EXCEPT ![o] = Sent("error")]
      BY <2>3 DEF FsRemove, Refuse, EndWith, Reply
    <3> HIDE DEF p
    <3>3. CASE At(p) # "missing" /\ tree' = [tree EXCEPT ![p] = "missing"]
      <4>1. p \in DOMAIN tree /\ p = op[o].abs
        BY <3>1, <3>3, ThereIsAPlace DEF FsInv
      <4>2. tree'[op[o].abs] = "missing"
        BY <2>0, <3>3, <4>1
      <4>3. QED
        BY <3>1, <4>2
    <3>4. CASE reply' = [reply EXCEPT ![o] = Sent("error")]
      BY <2>0, <3>4 DEF Sent
    <3>5. QED
      BY <3>2, <3>3, <3>4
  <2>4. ASSUME FsStep(o), op[o].pc \notin {"write", "remove"} PROVE Whole(o)
    BY <2>4
  <2>5. ASSUME FsStep(o), op[o].pc \in {"write", "remove"} PROVE FsWrite(o) \/ FsRemove(o)
    BY <2>5 DEF FsStep, FsResolve, FsStat, FsAnswer, FsApproval, FsOpen, FsRead, FsList
  <2>6. ASSUME NEW x \in FsOps, FsStep(x), x # o PROVE reply'[o] = reply[o]
    BY <2>0, <2>6, StepSays DEF Says, FsInv
  <2>7. (\E p \in DOMAIN Tree0 : FsEdit(p)) \/ UNCHANGED fsVars
        \/ (\E x \in FsOps : \E kind \in Kinds, path \in Paths : FsAsk(x, kind, path))
        => reply' = reply
    BY DEF FsEdit, FsAsk, fsVars
  <2>8. op[o].doubts # {} => Whole(o)
    OBVIOUS
  <2> HIDE DEF Whole
  <2>9. QED
    BY <2>1, <2>2, <2>3, <2>4, <2>5, <2>6, <2>7, <2>8 DEF FsNext
<1>2. FsInv /\ [FsNext]_fsVars => \A o \in FsOps : Whole(o)
  BY <1>1
<1>3. QED
  BY <1>2, FsInvariance, PTL DEF FsSpec, OkMeansWhole
-----------------------------------------------------------------------------
(* The gate.                                                               *)

Yes == {o \in FsOps : op[o].said = "yes"}
No == {o \in FsOps : op[o].said = "no"}

\* Threads that stay where they are change nothing at the gate.
LEMMA GateStutter ==
    ASSUME \A q \in FsOps : /\ GateStatus(q)' = GateStatus(q)
                            /\ op'[q].said = "yes" <=> op[q].said = "yes"
                            /\ op'[q].said = "no" <=> op[q].said = "no"
    PROVE  UNCHANGED FsGate!vars
<1>1. [q \in FsOps |-> GateStatus(q)'] = [q \in FsOps |-> GateStatus(q)]
  OBVIOUS
<1>2. Yes' = Yes /\ No' = No
  BY DEF Yes, No
<1>3. QED
  BY <1>1, <1>2 DEF FsGate!vars, Yes, No

\* One request changes its status, from what the gate allows.
LEMMA GateMove ==
    ASSUME NEW o \in FsOps,
           \A q \in FsOps : /\ op'[q].said = "yes" <=> op[q].said = "yes"
                            /\ op'[q].said = "no" <=> op[q].said = "no",
           \A q \in FsOps \ {o} : GateStatus(q)' = GateStatus(q),
           \/ GateStatus(o) = "idle" /\ GateStatus(o)' = "open"
           \/ GateStatus(o) = "open" /\ GateStatus(o)' = "denied"
           \/ GateStatus(o) = "open" /\ GateStatus(o)' = "performed" /\ op[o].said = "yes"
    PROVE  FsGate!Next
<1> DEFINE st == [q \in FsOps |-> GateStatus(q)]
<1>1. [q \in FsOps |-> GateStatus(q)'] = [st EXCEPT ![o] = GateStatus(o)']
  OBVIOUS
<1>2. Yes' = Yes /\ No' = No
  BY DEF Yes, No
<1>3. FsGate!Request(o) \/ FsGate!Deny(o) \/ FsGate!Perform(o)
  BY <1>1, <1>2 DEF FsGate!Request, FsGate!Deny, FsGate!Perform, Yes, No
<1>4. QED
  BY <1>3 DEF FsGate!Next

LEMMA ElsewhereGate ==
    ASSUME NEW q, Elsewhere(q)
    PROVE  /\ GateStatus(q)' = GateStatus(q)
           /\ op'[q].said = "yes" <=> op[q].said = "yes"
           /\ op'[q].said = "no" <=> op[q].said = "no"
  BY DEF Elsewhere, GateStatus

\* What a thread's step does at the gate.
LEMMA OwnGate ==
    ASSUME FsInv, NEW o \in FsOps, FsStep(o)
    PROVE  \/ /\ GateStatus(o)' = GateStatus(o)
              /\ op'[o].said = "yes" <=> op[o].said = "yes"
              /\ op'[o].said = "no" <=> op[o].said = "no"
           \/ /\ \/ GateStatus(o) = "idle" /\ GateStatus(o)' = "open"
                 \/ GateStatus(o) = "open" /\ GateStatus(o)' = "denied"
                 \/ GateStatus(o) = "open" /\ GateStatus(o)' = "performed" /\ op[o].said = "yes"
              /\ op'[o].said = "yes" <=> op[o].said = "yes"
              /\ op'[o].said = "no" <=> op[o].said = "no"
           \/ /\ GateStatus(o) = "open" /\ GateStatus(o)' = "open"
              /\ op[o].said = "none" /\ op'[o].said \in {"yes", "no"}
              /\ \A q \in FsOps \ {o} : op'[q] = op[q]
<1>0. FsPhaseOK(op[o]) /\ op[o] \in Op
  BY DEF FsInv, FsPhaseInv, FsTypeOK
<1>1. CASE OpEnds(o)
  <2>1. op'[o] = Finished(o)
    BY <1>1 DEF OpEnds
  <2>2. /\ Finished(o).pc = "done" /\ Finished(o).said = op[o].said
        /\ Finished(o).did <=> op[o].did
    BY <1>0 DEF Finished, NoOp, Op
  <2>3. op[o].pc \in {"resolve", "stat", "ask", "open", "remove", "read", "list"}
    BY <1>1 DEF OpEnds
  <2>4. /\ op'[o].pc = "done" /\ op'[o].said = op[o].said /\ (op'[o].did <=> op[o].did)
    BY <2>1, <2>2
  <2>5. QED
    BY <1>0, <2>3, <2>4 DEF GateStatus, FsPhaseOK
<1>2. CASE Writes(o)
  <2>1. op'[o] \in {Finished(o), [Finished(o) EXCEPT !.lost = TRUE]} /\ op[o].pc = "write"
    BY <1>2 DEF Writes
  <2>2. Finished(o).did <=> op[o].did
    BY <1>0 DEF Finished, NoOp, Op
  <2>3. [Finished(o) EXCEPT !.lost = TRUE].did <=> op[o].did
    <3>1. Finished(o) \in Op
      BY FinishedType DEF FsInv
    <3> HIDE DEF Finished
    <3>2. QED
      BY <2>2, <3>1 DEF Op
  <2>4. op'[o].pc = "done" /\ op'[o].said = op[o].said
    BY <2>1, FinishedShape DEF FsInv
  <2>5. op[o].did /\ op'[o].did
    BY <1>0, <2>1, <2>2, <2>3 DEF FsPhaseOK
  <2>6. QED
    BY <2>4, <2>5 DEF GateStatus
<1>3. CASE Removes(o)
  <2>1. op'[o] = [Finished(o) EXCEPT !.did = TRUE] /\ op[o].pc = "remove"
    BY <1>3 DEF Removes
  <2>2. op'[o].pc = "done" /\ op'[o].said = op[o].said
    BY <2>1, FinishedShape DEF FsInv
  <2>3. op'[o].did
    BY <2>1 DEF Finished, NoOp
  <2>4. QED
    BY <1>0, <2>1, <2>2, <2>3 DEF GateStatus, FsPhaseOK
<1>4. CASE Resolves(o)
  <2>1. /\ op'[o].pc = AfterResolve[op[o].kind] /\ (op'[o].did = op[o].did)
        /\ op[o].kind \in Kinds /\ op[o].pc = "resolve"
        /\ op'[o].said = IF op[o].kind \in {"modify", "delete"} THEN "none" ELSE op[o].said
    BY <1>4 DEF Resolves
  <2>2. op[o].said = "unasked" /\ ~op[o].did
    BY <1>0, <2>1 DEF FsPhaseOK
  <2>3. /\ op'[o].pc \in {"read", "list", "stat", "ask"} /\ op'[o].said \in {"none", "unasked"}
        /\ ~op'[o].did
    BY <2>1, <2>2 DEF AfterResolve, Kinds
  <2>4. QED
    BY <2>1, <2>2, <2>3 DEF GateStatus
<1>5. CASE Stats(o)
  <2>1. op[o].said = "unasked" /\ ~op[o].did /\ op[o].pc = "stat"
    BY <1>0, <1>5 DEF Stats, FsPhaseOK
  <2>2. op'[o].pc = "ask" /\ op'[o].said = "none" /\ op'[o].did = op[o].did
    BY <1>5 DEF Stats, Keeps
  <2>3. QED
    BY <2>1, <2>2 DEF GateStatus
<1>6. CASE OpAnswers(o)
  <2>1. ~op[o].did
    BY <1>0, <1>6 DEF OpAnswers, FsPhaseOK
  <2>2. QED
    BY <1>6, <2>1 DEF OpAnswers, Keeps, GateStatus
<1>7. CASE Approves(o)
  <2>1. ~op[o].did
    BY <1>0, <1>7 DEF Approves, FsPhaseOK
  <2>2. QED
    BY <1>7, <2>1 DEF Approves, Keeps, GateStatus
<1>8. CASE Opens(o)
  <2>1. ~op[o].did /\ op[o].said = "yes"
    BY <1>0, <1>8 DEF Opens, FsPhaseOK
  <2>2. QED
    BY <1>8, <2>1 DEF Opens, GateStatus
<1>9. QED
  BY <1>1, <1>2, <1>3, <1>4, <1>5, <1>6, <1>7, <1>8, OwnStep DEF FsInv

\* The worker's threads implement the gate: a file is written or removed only
\* after a yes to that request, and at most once for it.
THEOREM WorkerImplementsGate == FsSpec => FsGateSpec
<1>1. FsInit => FsGate!Init
  BY DEF FsInit, NoOp, GateStatus, FsGate!Init
<1>2. ASSUME FsInv, [FsNext]_fsVars PROVE [FsGate!Next]_(FsGate!vars)
  <2> USE <1>2 DEF FsInv
  <2>1. ASSUME NEW o \in FsOps, NEW kind \in Kinds, NEW path \in Paths, FsAsk(o, kind, path)
        PROVE  UNCHANGED FsGate!vars
    <3>1. op \in [FsOps -> Op] /\ op[o] \in Op /\ FsPhaseOK(op[o])
      BY DEF FsTypeOK, FsPhaseInv
    <3>2. /\ op' = [op EXCEPT ![o].pc = "resolve", ![o].kind = kind, ![o].path = path]
          /\ op[o].pc = "idle"
      BY <2>1 DEF FsAsk
    <3>3. /\ op'[o].pc = "resolve" /\ op'[o].said = op[o].said /\ op'[o].did = op[o].did
          /\ \A q \in FsOps : q # o => op'[q] = op[q]
      BY <3>1, <3>2 DEF Op
    <3>4. \A q \in FsOps : /\ GateStatus(q)' = GateStatus(q)
                           /\ op'[q].said = op[q].said
      BY <3>1, <3>2, <3>3 DEF GateStatus, FsPhaseOK
    <3>5. QED
      BY <3>4, GateStutter
  <2>2. ASSUME NEW o \in FsOps, FsStep(o) PROVE [FsGate!Next]_(FsGate!vars)
    <3>1. \A q \in FsOps \ {o} : /\ GateStatus(q)' = GateStatus(q)
                                 /\ op'[q].said = "yes" <=> op[q].said = "yes"
                                 /\ op'[q].said = "no" <=> op[q].said = "no"
      BY <2>2, StepElsewhere, ElsewhereGate DEF FsInv
    <3>2. CASE /\ GateStatus(o)' = GateStatus(o)
               /\ op'[o].said = "yes" <=> op[o].said = "yes"
               /\ op'[o].said = "no" <=> op[o].said = "no"
      BY <3>1, <3>2, GateStutter
    <3>3. CASE /\ \/ GateStatus(o) = "idle" /\ GateStatus(o)' = "open"
                  \/ GateStatus(o) = "open" /\ GateStatus(o)' = "denied"
                  \/ GateStatus(o) = "open" /\ GateStatus(o)' = "performed"
                     /\ op[o].said = "yes"
               /\ op'[o].said = "yes" <=> op[o].said = "yes"
               /\ op'[o].said = "no" <=> op[o].said = "no"
      BY <3>1, <3>3, GateMove
    <3>4. CASE /\ GateStatus(o) = "open" /\ GateStatus(o)' = "open"
               /\ op[o].said = "none" /\ op'[o].said \in {"yes", "no"}
               /\ \A q \in FsOps \ {o} : op'[q] = op[q]
      <4>1. [q \in FsOps |-> GateStatus(q)'] = [q \in FsOps |-> GateStatus(q)]
        BY <3>1, <3>4
      <4>2. \/ Yes' = Yes \cup {o} /\ No' = No
            \/ No' = No \cup {o} /\ Yes' = Yes
        BY <3>4 DEF Yes, No
      <4>3. FsGate!Answer(o)
        BY <3>4, <4>1, <4>2 DEF FsGate!Answer, Yes, No
      <4>4. QED
        BY <4>3 DEF FsGate!Next
    <3>5. QED
      BY <2>2, <3>2, <3>3, <3>4, OwnGate
  <2>3. ASSUME NEW p \in DOMAIN Tree0, FsEdit(p) PROVE UNCHANGED FsGate!vars
    <3>1. \A q \in FsOps : Elsewhere(q)
      BY <2>3, EditElsewhere
    <3>2. QED
      BY <3>1, ElsewhereGate, GateStutter
  <2>4. CASE UNCHANGED fsVars
    BY <2>4, GateStutter DEF fsVars, GateStatus
  <2>5. QED
    BY <2>1, <2>2, <2>3, <2>4 DEF FsNext
<1>3. QED
  BY <1>1, <1>2, FsInvariance, PTL DEF FsSpec, FsGateSpec, FsGate!Spec

-----------------------------------------------------------------------------
(* What TLC checks is both kinds of work: a behaviour of the instance is   *)
(* one of each component, so what is proved of the components holds of it. *)

\* The instance's behaviours are behaviours of the chat requests' threads and
\* of the file system requests'.
LEMMA BackendParts == BackendSpec => AgentSpec /\ FsSpec
<1>1. BackendInit => AgentInit /\ FsInit
  BY DEF BackendInit
<1>2. [BackendNext]_<<part, agentVars, fsVars>> => [AgentNext]_agentVars /\ [FsNext]_fsVars
  BY DEF BackendNext
<1> QED
  BY <1>1, <1>2, PTL DEF BackendSpec, AgentSpec, FsSpec

\* All the state of the backend's threads keeps its types.
THEOREM BackendTypeCorrect == BackendSpec => []BackendTypeOK
<1>1. AgentTypeOK /\ FsTypeOK => BackendTypeOK
  BY DEF BackendTypeOK
<1> QED
  BY <1>1, BackendParts, AgentTypeCorrect, FsTypeCorrect, PTL
=============================================================================
