---------------------------- MODULE PromptProofs ----------------------------
(***************************************************************************)
(* Proofs about ChoiceList and Prompt.                                     *)
(*                                                                         *)
(* detect_choices is recursive.  The library's induction theorems take a   *)
(* predicate, which the provers cannot instantiate; so induction is stated *)
(* here over sets, from the theorem that the finite sets of numbers are    *)
(* well-founded under inclusion, and a recursion is a run of a function    *)
(* from states to states.                                                  *)
(***************************************************************************)
EXTENDS Prompt, FiniteSetTheorems, SequenceTheorems, TLAPS

-----------------------------------------------------------------------------
(* Induction and recursion.                                                *)

\* Every set of numbers has a least element.
LEMMA Least ==
    ASSUME NEW T, T \subseteq Nat, T # {}
    PROVE  \E x \in T : \A y \in T : x <= y
<1> DEFINE U == {0..x : x \in T}
<1>1. U \subseteq FiniteSubsetsOf(Nat) /\ U # {}
  <2>1. ASSUME NEW x \in T
        PROVE  0..x \in FiniteSubsetsOf(Nat)
    <3>1. x \in Int /\ 0 \in Int /\ 0..x \subseteq Nat
      OBVIOUS
    <3>2. IsFiniteSet(0..x)
      BY <3>1, FS_Interval
    <3> QED
      BY <3>1, <3>2 DEF FiniteSubsetsOf
  <2> QED
    BY <2>1
<1>2. IsWellFoundedOn(StrictSubsetOrdering(Nat), FiniteSubsetsOf(Nat))
  BY FS_StrictSubsetOrderingWellFounded
<1>3. \E a \in U : \A b \in U : ~(<<b, a>> \in StrictSubsetOrdering(Nat))
  <2> HIDE DEF U
  <2> QED
    BY <1>1, <1>2, WFMin
<1>4. PICK x \in T : \A y \in T : <<0..y, 0..x>> \notin StrictSubsetOrdering(Nat)
  BY <1>3
<1> SUFFICES ASSUME NEW y \in T, y < x
    PROVE  FALSE
  BY <1>4
<1>5. 0..y \subseteq 0..x /\ 0..y # 0..x /\ 0..y \subseteq Nat /\ 0..x \subseteq Nat
  OBVIOUS
<1> QED
  BY <1>4, <1>5 DEF StrictSubsetOrdering

LEMMA Induction ==
    ASSUME NEW S, 0 \in S, \A n \in Nat : n \in S => n + 1 \in S
    PROVE  Nat \subseteq S
<1> SUFFICES ASSUME Nat \ S # {}
    PROVE  FALSE
  OBVIOUS
<1>1. PICK x \in Nat \ S : \A y \in Nat \ S : x <= y
  BY Least
<1>2. x # 0 /\ x - 1 \in Nat /\ x - 1 \notin Nat \ S
  BY <1>1
<1> QED
  BY <1>2

\* f goes from c through N steps.
Runs(f, N, S, c, step) ==
    /\ f \in [0..N -> S]
    /\ f[0] = c
    /\ \A n \in 1..N : f[n] = step[f[n - 1]]

LEMMA Recursion ==
    ASSUME NEW S, NEW c \in S, NEW step \in [S -> S], NEW N \in Nat
    PROVE  \E f : Runs(f, N, S, c, step)
<1> DEFINE Q == {n \in Nat : \E f : Runs(f, n, S, c, step)}
<1>1. 0 \in Q
  <2>1. Runs([n \in 0..0 |-> c], 0, S, c, step)
    BY DEF Runs
  <2> QED
    BY <2>1
<1>2. ASSUME NEW n \in Nat, n \in Q
      PROVE  n + 1 \in Q
  <2>1. PICK f : Runs(f, n, S, c, step)
    BY <1>2
  <2>2. f[n] \in S /\ step[f[n]] \in S
    BY <2>1 DEF Runs
  <2> DEFINE g == [m \in 0..(n + 1) |-> IF m = n + 1 THEN step[f[n]] ELSE f[m]]
  <2>3. g \in [0..(n + 1) -> S]
    BY <2>1, <2>2 DEF Runs
  <2>4. g[0] = c /\ \A m \in 1..n : g[m] = step[g[m - 1]]
    BY <2>1 DEF Runs
  <2>5. g[n + 1] = step[g[n + 1 - 1]]
    BY <2>1 DEF Runs
  <2> HIDE DEF g
  <2>6. ASSUME NEW m \in 1..(n + 1)
        PROVE  g[m] = step[g[m - 1]]
    <3>1. CASE m = n + 1
      BY <2>5, <3>1
    <3>2. CASE m \in 1..n
      BY <2>4, <3>2
    <3> QED
      BY <3>1, <3>2
  <2>7. Runs(g, n + 1, S, c, step)
    BY <2>3, <2>4, <2>6 DEF Runs
  <2> QED
    BY <2>7
<1>3. Nat \subseteq Q
  <2> HIDE DEF Q
  <2> QED
    BY <1>1, <1>2, Induction
<1> QED
  BY <1>3

LEMMA MinIs ==
    ASSUME NEW T, T \subseteq Nat, T # {}
    PROVE  Min(T) \in T /\ \A y \in T : Min(T) <= y
BY Least DEF Min
-----------------------------------------------------------------------------
(* The choices of a reply.                                                 *)

Choice == [from : Nat, to : Nat]

\* Where choice j is looked for.
Below(list, j) == IF j = 1 THEN 1 ELSE list[j - 1].to + 1

\* Each choice starts on the first line below the one before it that starts
\* it, and goes on to its end.
Listed(reply, style, list) ==
    /\ list \in Seq(Choice)
    /\ \A j \in 1..Len(list) :
        /\ list[j].from \in Starts(reply, Below(list, j), style, j)
        /\ \A f \in Starts(reply, Below(list, j), style, j) : list[j].from <= f
        /\ list[j].to = ItemEnd(reply, list[j].from, style, j)

\* No line is left that goes on from the last choice.
Complete(reply, style, list) ==
    Starts(reply, Below(list, Len(list) + 1), style, Len(list) + 1) = {}

\* The choice k goes no further than line j.
Ends(reply, j, style, k) ==
    j = Len(reply) \/ reply[j + 1].style = "blank" \/ IsBullet(reply[j + 1], style, k + 1)

LEMMA ItemEndIs ==
    ASSUME NEW reply \in Seq(Line), NEW i \in 1..Len(reply), NEW style, NEW k
    PROVE  /\ ItemEnd(reply, i, style, k) \in i..Len(reply)
           /\ Ends(reply, ItemEnd(reply, i, style, k), style, k)
           /\ \A j \in i..Len(reply) :
                Ends(reply, j, style, k) => ItemEnd(reply, i, style, k) <= j
<1> DEFINE T == {j \in i..Len(reply) : Ends(reply, j, style, k)}
<1>1. Len(reply) \in T /\ T \subseteq Nat
  BY DEF Ends
<1>2. ItemEnd(reply, i, style, k) = Min(T)
  BY DEF ItemEnd, Ends
<1>3. Min(T) \in T /\ \A y \in T : Min(T) <= y
  <2> HIDE DEF T
  <2> QED
    BY <1>1, MinIs
<1> QED
  BY <1>2, <1>3

LEMMA WithNextIs ==
    ASSUME NEW reply \in Seq(Line), NEW style, NEW list, Listed(reply, style, list),
           NEW next, next = WithNext(reply, style, list)
    PROVE  /\ Listed(reply, style, next)
           /\ \/ next = list /\ Complete(reply, style, list)
              \/ Len(next) = Len(list) + 1 /\ ~Complete(reply, style, list)
<1> DEFINE k == Len(list) + 1
           starts == Starts(reply, Below(list, k), style, k)
           from == Min(starts)
           choice == [from |-> from, to |-> ItemEnd(reply, from, style, k)]
<1>1. list \in Seq(Choice) /\ k \in Nat \ {0} /\ Below(list, k) \in Nat \ {0}
  <2>1. list \in Seq(Choice) /\ Len(list) \in Nat
    BY DEF Listed
  <2>2. k # 1 => list[k - 1] \in Choice
    BY <2>1
  <2> QED
    BY <2>1, <2>2 DEF Below, Choice
<1>2. next = IF starts = {} THEN list ELSE Append(list, choice)
  BY DEF WithNext, Below
<1>3. CASE starts = {}
  BY <1>2, <1>3 DEF Complete
<1>4. CASE starts # {}
  <2>1. starts \subseteq 1..Len(reply)
    BY <1>1 DEF Starts
  <2>2. from \in starts /\ \A f \in starts : from <= f
    <3>1. starts \subseteq Nat
      BY <2>1
    <3> HIDE DEF starts
    <3> QED
      BY <1>4, <3>1, MinIs
  <2>3. choice \in Choice
    <3>1. from \in 1..Len(reply)
      BY <2>1, <2>2
    <3>2. ItemEnd(reply, from, style, k) \in from..Len(reply)
      BY ONLY <3>1, ItemEndIs, reply \in Seq(Line)
    <3> QED
      BY <3>1, <3>2 DEF Choice
  <2>4. /\ next = Append(list, choice) /\ next \in Seq(Choice) /\ Len(next) = k
        /\ next[k] = choice /\ \A j \in 1..Len(list) : next[j] = list[j]
    <3> HIDE DEF choice
    <3>1. next = Append(list, choice)
      BY <1>2, <1>4
    <3> QED
      BY <3>1, <1>1, <2>3, AppendProperties
  <2>5. \A j \in 1..k : Below(next, j) = Below(list, j)
    BY <2>4, <1>1 DEF Below
  <2>6. ASSUME NEW j \in 1..k
        PROVE  /\ next[j].from \in Starts(reply, Below(next, j), style, j)
               /\ \A f \in Starts(reply, Below(next, j), style, j) : next[j].from <= f
               /\ next[j].to = ItemEnd(reply, next[j].from, style, j)
    <3>1. CASE j = k
      BY <2>2, <2>4, <2>5, <3>1
    <3>2. CASE j \in 1..Len(list)
      BY <2>4, <2>5, <3>2 DEF Listed
    <3> QED
      BY <3>1, <3>2, <1>1
  <2>7. ~Complete(reply, style, list)
    BY <1>4 DEF Complete
  <2>8. Listed(reply, style, next)
    BY <2>4, <2>6 DEF Listed
  <2> QED
    BY <2>4, <2>7, <2>8
<1> QED
  BY <1>3, <1>4

\* detect_choices takes at most MaxChoices choices of one style, and stops
\* earlier only when none is left.
LEMMA ChoicesOfIs ==
    ASSUME NEW reply \in Seq(Line), NEW style
    PROVE  /\ Listed(reply, style, ChoicesOf(reply, style))
           /\ Len(ChoicesOf(reply, style)) <= MaxChoices
           /\ Len(ChoicesOf(reply, style)) < MaxChoices =>
                Complete(reply, style, ChoicesOf(reply, style))
<1> DEFINE S == {list \in Seq(Choice) : Listed(reply, style, list)}
           step == [list \in S |-> WithNext(reply, style, list)]
           Unfold(g) == [k \in 0..MaxChoices |->
                            IF k = 0 THEN <<>> ELSE WithNext(reply, style, g[k - 1])]
           U == CHOOSE g : g = Unfold(g)
<1>1. MaxChoices \in Nat /\ <<>> \in S /\ step \in [S -> S]
  <2>1. Listed(reply, style, <<>>)
    BY EmptySeq DEF Listed
  <2>2. ASSUME NEW list \in S
        PROVE  WithNext(reply, style, list) \in S
    BY WithNextIs DEF Listed
  <2> QED
    BY <2>1, <2>2, ChoicesAssumption, EmptySeq
<1>2. \E g : g = Unfold(g)
  <2>1. PICK f : Runs(f, MaxChoices, S, <<>>, step)
    <3> HIDE DEF S, step
    <3> QED
      BY <1>1, Recursion
  <2>2. f = [k \in 0..MaxChoices |-> f[k]] /\ f[0] = <<>>
    BY <2>1 DEF Runs
  <2>3. \A k \in 1..MaxChoices : f[k] = WithNext(reply, style, f[k - 1])
    <3> SUFFICES ASSUME NEW k \in 1..MaxChoices
        PROVE  f[k] = WithNext(reply, style, f[k - 1])
      OBVIOUS
    <3>1. k - 1 \in 0..MaxChoices /\ f[k - 1] \in S /\ f[k] = step[f[k - 1]]
      <4> HIDE DEF S, step
      <4> QED
        BY <2>1, <1>1 DEF Runs
    <3> QED
      BY <3>1
  <2>4. \A k \in 0..MaxChoices :
           f[k] = IF k = 0 THEN <<>> ELSE WithNext(reply, style, f[k - 1])
    BY <2>2, <2>3, <1>1
  <2>5. f = Unfold(f)
    BY ONLY <2>2, <2>4
  <2> QED
    BY <2>5
<1>3. U = Unfold(U) /\ ChoicesOf(reply, style) = U[MaxChoices]
  <2>1. U = Unfold(U)
    BY <1>2
  <2>2. ChoicesOf(reply, style) = U[MaxChoices]
    BY DEF ChoicesOf
  <2> QED
    BY <2>1, <2>2
<1> HIDE DEF U
<1> DEFINE Q == {k \in Nat : k <= MaxChoices =>
                   /\ Listed(reply, style, U[k]) /\ Len(U[k]) <= k
                   /\ Len(U[k]) < k => Complete(reply, style, U[k])}
<1>4. 0 \in Q
  <2>1. U[0] = <<>> /\ Len(U[0]) = 0
    BY <1>3, <1>1
  <2> QED
    BY <2>1, <1>1
<1>5. ASSUME NEW k \in Nat, k \in Q
      PROVE  k + 1 \in Q
  <2> SUFFICES ASSUME k + 1 <= MaxChoices
      PROVE  /\ Listed(reply, style, U[k + 1]) /\ Len(U[k + 1]) <= k + 1
             /\ Len(U[k + 1]) < k + 1 => Complete(reply, style, U[k + 1])
    OBVIOUS
  <2>1. /\ Listed(reply, style, U[k]) /\ Len(U[k]) <= k
        /\ Len(U[k]) < k => Complete(reply, style, U[k])
    BY <1>5, <1>1
  <2>2. U[k + 1] = WithNext(reply, style, U[k])
    BY <1>3, <1>1
  <2>3. Listed(reply, style, U[k + 1])
    BY <2>1, <2>2, WithNextIs
  <2>4. Len(U[k]) \in Nat /\ Len(U[k + 1]) \in Nat
    BY <2>1, <2>3 DEF Listed
  <2>5. \/ U[k + 1] = U[k] /\ Complete(reply, style, U[k])
        \/ Len(U[k + 1]) = Len(U[k]) + 1 /\ ~Complete(reply, style, U[k])
    BY <2>1, <2>2, WithNextIs
  <2>6. CASE U[k + 1] = U[k] /\ Complete(reply, style, U[k])
    BY ONLY <2>6, <2>1, <2>3, <2>4, k \in Nat
  <2>7. CASE Len(U[k + 1]) = Len(U[k]) + 1 /\ ~Complete(reply, style, U[k])
    BY ONLY <2>7, <2>1, <2>3, <2>4, k \in Nat
  <2> QED
    BY <2>5, <2>6, <2>7
<1>6. Nat \subseteq Q
  <2> HIDE DEF Q
  <2> QED
    BY <1>4, <1>5, Induction
<1>7. MaxChoices \in Q
  BY <1>1, <1>6
<1> HIDE DEF Unfold
<1> QED
  BY <1>1, <1>3, <1>7
LEMMA ListedIs ==
    ASSUME NEW reply \in Seq(Line), NEW style, NEW list, Listed(reply, style, list),
           NEW j \in 1..Len(list)
    PROVE  /\ list[j].from \in 1..Len(reply) /\ list[j].to \in list[j].from..Len(reply)
           /\ IsItem(reply[list[j].from], style, j)
           /\ reply[list[j].from].text \/ list[j].from < list[j].to
           /\ Ends(reply, list[j].to, style, j)
           /\ \A i \in list[j].from + 1..list[j].to :
                reply[i].style # "blank" /\ ~IsBullet(reply[i], style, j + 1)
           /\ j > 1 => list[j - 1].to < list[j].from
<1> DEFINE from == list[j].from
           to == list[j].to
<1>1. /\ list \in Seq(Choice) /\ j \in Nat \ {0}
      /\ from \in Starts(reply, Below(list, j), style, j) /\ to = ItemEnd(reply, from, style, j)
  BY DEF Listed
<1>2. from \in Nat /\ to \in Nat /\ Below(list, j) \in Nat \ {0}
      /\ (j > 1 => list[j - 1].to \in Nat /\ Below(list, j) = list[j - 1].to + 1)
  <2>1. list[j] \in Choice
    BY <1>1
  <2>2. j > 1 => list[j - 1] \in Choice
    BY <1>1
  <2> QED
    BY <2>1, <2>2, <1>1 DEF Choice, Below
<1>3. /\ from \in Below(list, j)..Len(reply) /\ IsItem(reply[from], style, j)
      /\ reply[from].text \/ to > from
  BY <1>1 DEF Starts
<1>4. from \in 1..Len(reply)
  BY <1>2, <1>3
<1>5. /\ to \in from..Len(reply) /\ Ends(reply, to, style, j)
      /\ \A i \in from..Len(reply) : Ends(reply, i, style, j) => to <= i
  BY ONLY <1>1, <1>4, ItemEndIs, reply \in Seq(Line)
<1>6. ASSUME NEW i \in from + 1..to
      PROVE  reply[i].style # "blank" /\ ~IsBullet(reply[i], style, j + 1)
  <2>1. i - 1 \in from..Len(reply) /\ i - 1 + 1 = i /\ ~(to <= i - 1)
    BY <1>2, <1>5
  <2>2. ~Ends(reply, i - 1, style, j)
    BY ONLY <2>1, <1>5
  <2> QED
    BY <2>1, <2>2 DEF Ends
<1> HIDE DEF from, to
<1>7. j > 1 => list[j - 1].to < from
  BY <1>2, <1>3
<1> QED
  BY <1>2, <1>3, <1>4, <1>5, <1>6, <1>7 DEF from, to

LEMMA CandidateStarts ==
    ASSUME NEW reply, NEW style, NEW k, NEW i, NEW f \in Candidates(reply, style, k),
           reply \in Seq(Line), i \in Nat, f >= i
    PROVE  f \in Starts(reply, i, style, k)
BY DEF Candidates, Starts

\* Bullet 2 after bullet 1: the list has both.
LEMMA PairListed ==
    ASSUME NEW reply \in Seq(Line), NEW style,
           NEW i \in Candidates(reply, style, 1), NEW j \in Candidates(reply, style, 2), i < j
    PROVE  Len(ChoicesOf(reply, style)) >= 2
<1> DEFINE list == ChoicesOf(reply, style)
<1>1. /\ Listed(reply, style, list) /\ Len(list) \in Nat /\ MaxChoices \in Nat \ {0, 1}
      /\ Len(list) < MaxChoices => Complete(reply, style, list)
  BY ChoicesOfIs, ChoicesAssumption DEF Listed
<1> HIDE DEF list
<1>2. i \in 1..Len(reply) /\ j \in 1..Len(reply) /\ IsBullet(reply[j], style, 2)
  BY DEF Candidates, IsItem, IsBullet
<1>3. ASSUME Len(list) = 0
      PROVE  FALSE
  <2>1. Starts(reply, 1, style, 1) = {}
    BY <1>1, <1>3 DEF Complete, Below
  <2>2. i \in Starts(reply, 1, style, 1)
    BY <1>2, CandidateStarts
  <2> QED
    BY <2>1, <2>2
<1>4. ASSUME Len(list) = 1
      PROVE  FALSE
  <2>1. Starts(reply, list[1].to + 1, style, 2) = {}
    BY <1>1, <1>4 DEF Complete, Below
  <2>2. list[1].from <= i
    <3>1. i \in Starts(reply, 1, style, 1)
      BY <1>2, CandidateStarts
    <3> QED
      BY <3>1, <1>1, <1>4 DEF Listed, Below
  <2>3. /\ list[1].from \in 1..Len(reply) /\ list[1].to \in list[1].from..Len(reply)
        /\ \A k \in list[1].from + 1..list[1].to : ~IsBullet(reply[k], style, 2)
    <3>1. 1 \in 1..Len(list) /\ 1 + 1 = 2
      BY <1>4
    <3> QED
      BY <3>1, <1>1, ListedIs
  <2>4. j > list[1].to
    <3>1. j \notin list[1].from + 1..list[1].to
      BY <2>3, <1>2
    <3>2. j >= list[1].from + 1
      BY <2>2, <2>3, <1>2
    <3> QED
      BY <3>1, <3>2, <2>3, <1>2
  <2>5. j \in Starts(reply, list[1].to + 1, style, 2)
    <3>1. list[1].to + 1 \in Nat /\ j >= list[1].to + 1
      BY <2>3, <2>4, <1>2
    <3> QED
      BY <3>1, CandidateStarts
  <2> QED
    BY <2>1, <2>5
<1>5. Len(list) # 0 /\ Len(list) # 1
  BY <1>3, <1>4
<1>6. Len(list) >= 2
  <2>1. \A n \in Nat : n # 0 /\ n # 1 => n >= 2
    OBVIOUS
  <2>2. Len(list) \in Nat
    BY <1>1
  <2> QED
    BY ONLY <2>1, <2>2, <1>5
<1> QED
  BY <1>6 DEF list

\* The first style of which there are two choices, if there is one.
LEMMA DetectIs ==
    ASSUME NEW reply \in Seq(Line)
    PROVE  \/ /\ detect_choices(reply) = <<>>
              /\ ~(Len(ChoicesOf(reply, "digit")) >= 2)
              /\ ~(Len(ChoicesOf(reply, "letter")) >= 2)
           \/ \E style \in {"digit", "letter"} :
                /\ detect_choices(reply) = ChoicesOf(reply, style)
                /\ Len(ChoicesOf(reply, style)) >= 2
                /\ style # "digit" => ~(Len(ChoicesOf(reply, "digit")) >= 2)
<1> DEFINE lists == {s \in DOMAIN Styles : Len(ChoicesOf(reply, Styles[s])) >= 2}
<1>1. DOMAIN Styles = {1, 2} /\ Styles[1] = "digit" /\ Styles[2] = "letter"
  BY DEF Styles
<1>2. lists = {} => detect_choices(reply) = <<>>
  BY DEF detect_choices
<1>3. lists # {} => detect_choices(reply) = ChoicesOf(reply, Styles[Min(lists)])
  BY DEF detect_choices
<1>4. lists # {} => Min(lists) \in lists /\ \A y \in lists : Min(lists) <= y
  <2>1. lists \subseteq Nat
    BY <1>1
  <2> HIDE DEF lists
  <2> QED
    BY <2>1, MinIs
<1>5. CASE lists = {}
  BY <1>1, <1>2, <1>5
<1>6. CASE 1 \in lists
  <2>1. Min(lists) = 1
    BY <1>1, <1>4, <1>6
  <2> QED
    BY <2>1, <1>1, <1>3, <1>6
<1>7. CASE lists # {} /\ 1 \notin lists
  <2>1. Min(lists) = 2 /\ 2 \in lists
    BY <1>1, <1>4, <1>7
  <2> QED
    BY <2>1, <1>1, <1>3, <1>7
<1> QED
  BY <1>5, <1>6, <1>7
\* detect_choices, for a reply of any length: choices are offered as soon as
\* a bullet 2 follows a bullet 1; those offered are apart, in order and of one
\* style, each begins with its own bullet and holds neither a blank line nor
\* the next bullet, and none that goes on from the last is left out.
THEOREM ListRead == \A reply \in Seq(Line) : ReadsTheList(reply)
<1> SUFFICES ASSUME NEW reply \in Seq(Line)
    PROVE  ReadsTheList(reply)
  OBVIOUS
<1> DEFINE list == detect_choices(reply)
           n == Len(list)
           Pair(s) == \E i \in Candidates(reply, s, 1) :
                       \E j \in Candidates(reply, s, 2) : i < j
<1>1. \A s \in {"digit", "letter"} : Pair(s) => Len(ChoicesOf(reply, s)) >= 2
  BY PairListed
<1>2. CASE /\ list = <<>>
           /\ ~(Len(ChoicesOf(reply, "digit")) >= 2)
           /\ ~(Len(ChoicesOf(reply, "letter")) >= 2)
  <2>1. \A s \in DOMAIN Styles : ~Pair(Styles[s])
    <3>1. DOMAIN Styles = {1, 2} /\ Styles[1] = "digit" /\ Styles[2] = "letter"
      BY DEF Styles
    <3>2. ~Pair("digit") /\ ~Pair("letter")
      BY <1>1, <1>2
    <3> QED
      BY <3>1, <3>2
  <2>2. n = 0 /\ n <= MaxChoices
    BY <1>2, ChoicesAssumption
  <2> HIDE DEF list
  <2> QED
    BY <1>2, <2>1, <2>2 DEF ReadsTheList, list
<1>3. ASSUME NEW style \in {"digit", "letter"},
             list = ChoicesOf(reply, style), n >= 2,
             style # "digit" => ~(Len(ChoicesOf(reply, "digit")) >= 2)
      PROVE  ReadsTheList(reply)
  <2>1. /\ Listed(reply, style, list) /\ list \in Seq(Choice) /\ n \in Nat
        /\ n <= MaxChoices
        /\ n < MaxChoices => Complete(reply, style, list)
    BY <1>3, ChoicesOfIs DEF Listed
  <2>2. list # <<>>
    BY <1>3
  <2>3. Pair("digit") => style = "digit"
    BY <1>1, <1>3
  <2> HIDE DEF list
  <2>4. \A k \in 1..n :
          /\ list[k].from \in 1..Len(reply) /\ list[k].to \in list[k].from..Len(reply)
          /\ IsItem(reply[list[k].from], style, k)
          /\ reply[list[k].from].text \/ list[k].from < list[k].to
          /\ \A i \in list[k].from + 1..list[k].to :
                reply[i].style # "blank" /\ ~IsBullet(reply[i], style, k + 1)
          /\ k > 1 => list[k - 1].to < list[k].from
    BY <2>1, ListedIs
  <2>5. reply[list[1].from].style = style
    BY <1>3, <2>4 DEF IsItem
  <2>6. ASSUME n < MaxChoices, NEW i \in Candidates(reply, style, n + 1)
        PROVE  i < list[n].to
    <3>1. /\ list[n].from \in 1..Len(reply) /\ list[n].to \in list[n].from..Len(reply)
          /\ IsItem(reply[list[n].from], style, n)
          /\ \A l \in list[n].from + 1..list[n].to : ~IsBullet(reply[l], style, n + 1)
      BY <1>3, <2>1, <2>4
    <3>2. i \in 1..Len(reply) /\ IsBullet(reply[i], style, n + 1)
      BY DEF Candidates, IsItem, IsBullet
    <3>3. Starts(reply, list[n].to + 1, style, n + 1) = {}
      BY <2>1, <2>6, <1>3 DEF Complete, Below
    <3>4. ~(i >= list[n].to + 1)
      <4>1. list[n].to + 1 \in Nat
        BY <3>1
      <4> QED
        BY <3>3, <4>1, CandidateStarts
    <3>5. i # list[n].to
      <4>1. CASE list[n].to = list[n].from
        BY <4>1, <3>1, <3>2, <2>1 DEF IsItem, IsBullet
      <4>2. CASE list[n].to # list[n].from
        BY <4>2, <3>1, <3>2
      <4> QED
        BY <4>1, <4>2
    <3> QED
      BY <3>1, <3>2, <3>4, <3>5
  <2> HIDE DEF n, Pair
  <2> QED
    BY <2>1, <2>2, <2>3, <2>4, <2>5, <2>6, <1>3 DEF ReadsTheList, list, n, Pair
<1> QED
  BY <1>2, <1>3, DetectIs
LEMMA DetectBounds ==
    ASSUME NEW reply \in Seq(Line)
    PROVE  Len(detect_choices(reply)) \in {0} \cup 2..MaxChoices
<1>1. CASE detect_choices(reply) = <<>>
  BY <1>1
<1>2. ASSUME NEW style \in {"digit", "letter"},
             detect_choices(reply) = ChoicesOf(reply, style), Len(ChoicesOf(reply, style)) >= 2
      PROVE  Len(detect_choices(reply)) \in 2..MaxChoices
  BY <1>2, ChoicesOfIs, ChoicesAssumption DEF Listed
<1> QED
  BY <1>1, <1>2, DetectIs

-----------------------------------------------------------------------------
(* Sequences.                                                              *)

\* A sequence with one more element.
LEMMA InsertAtIs ==
    ASSUME NEW S, NEW s \in Seq(S), NEW k \in 1..Len(s) + 1, NEW e \in S
    PROVE  InsertAt(s, k, e) \in Seq(S) /\ Len(InsertAt(s, k, e)) = Len(s) + 1
<1> DEFINE a == SubSeq(s, 1, k - 1)
           b == SubSeq(s, k, Len(s))
           h == <<e>>
<1>0. Len(s) \in Nat
  BY LenProperties
<1>1. a \in Seq(S) /\ Len(a) = k - 1
  <2>1. \A i \in 1..(k - 1) : s[i] \in S
    BY <1>0
  <2> QED
    BY <1>0, <2>1, SubSeqProperties
<1>2. b \in Seq(S) /\ Len(b) = Len(s) - k + 1
  <2>1. \A i \in k..Len(s) : s[i] \in S
    BY <1>0
  <2> QED
    BY <1>0, <2>1, SubSeqProperties
<1>3. h \in Seq(S) /\ Len(h) = 1
  OBVIOUS
<1>4. InsertAt(s, k, e) = (a \o h) \o b
  BY DEF InsertAt
<1> HIDE DEF a, b, h
<1>5. a \o h \in Seq(S) /\ Len(a \o h) = Len(a) + Len(h)
  BY ONLY <1>1, <1>3, ConcatProperties
<1>6. Len(a \o h) = k
  BY <1>0, <1>1, <1>3, <1>5
<1> DEFINE ah == a \o h
<1>7. ah \in Seq(S) /\ Len(ah) = k
  BY <1>5, <1>6
<1> HIDE DEF ah
<1>8. ah \o b \in Seq(S) /\ Len(ah \o b) = Len(ah) + Len(b)
  BY ONLY <1>2, <1>7, ConcatProperties
<1>9. Len(ah \o b) = Len(s) + 1
  BY <1>0, <1>2, <1>7, <1>8
<1> QED
  BY <1>4, <1>8, <1>9 DEF ah

\* A sequence without its k-th element.
LEMMA RemoveAtIs ==
    ASSUME NEW S, NEW s \in Seq(S), NEW k \in 1..Len(s)
    PROVE  /\ RemoveAt(s, k) \in Seq(S)
           /\ Len(RemoveAt(s, k)) = Len(s) - 1
           /\ \A i \in 1..(Len(s) - 1) :
                RemoveAt(s, k)[i] = s[IF i < k THEN i ELSE i + 1]
<1>0. Len(s) \in Nat
  BY LenProperties
<1> DEFINE a == SubSeq(s, 1, k - 1)
           b == SubSeq(s, k + 1, Len(s))
<1>1. /\ a \in Seq(S) /\ Len(a) = k - 1
      /\ \A i \in 1..(k - 1) : a[i] = s[i]
  <2>1. \A i \in 1..(k - 1) : s[i] \in S
    BY <1>0
  <2> QED
    BY <1>0, <2>1, SubSeqProperties
<1>2. /\ b \in Seq(S) /\ Len(b) = Len(s) - k
      /\ \A i \in 1..(Len(s) - k) : b[i] = s[k + i]
  <2>1. \A i \in (k + 1)..Len(s) : s[i] \in S
    BY <1>0
  <2>2. k + 1 \in Int /\ Len(s) \in Int
    BY <1>0
  <2>3. /\ b \in Seq(S)
        /\ Len(b) = IF k + 1 <= Len(s) THEN Len(s) - (k + 1) + 1 ELSE 0
        /\ \A i \in 1..(Len(s) - (k + 1) + 1) : b[i] = s[(k + 1) + i - 1]
    BY <2>1, <2>2, SubSeqProperties
  <2>4. Len(b) = Len(s) - k
    BY <1>0, <2>3
  <2>5. ASSUME NEW i \in 1..(Len(s) - k)
        PROVE  b[i] = s[k + i]
    <3>1. i \in 1..(Len(s) - (k + 1) + 1) /\ (k + 1) + i - 1 = k + i
      BY <1>0
    <3> QED
      BY <2>3, <3>1
  <2> QED
    BY <2>3, <2>4, <2>5
<1>3. RemoveAt(s, k) = a \o b
  BY DEF RemoveAt
<1> HIDE DEF a, b
<1>4. /\ a \o b \in Seq(S) /\ Len(a \o b) = Len(s) - 1
      /\ \A i \in 1..(Len(s) - 1) : (a \o b)[i] = IF i <= k - 1 THEN a[i] ELSE b[i - (k - 1)]
  <2>1. /\ a \o b \in Seq(S) /\ Len(a \o b) = Len(a) + Len(b)
        /\ \A i \in 1..(Len(a) + Len(b)) :
             (a \o b)[i] = IF i <= Len(a) THEN a[i] ELSE b[i - Len(a)]
    BY <1>1, <1>2, ConcatProperties
  <2>2. Len(a) + Len(b) = Len(s) - 1
    BY <1>0, <1>1, <1>2
  <2> QED
    BY <1>1, <2>1, <2>2
<1>5. ASSUME NEW i \in 1..(Len(s) - 1)
      PROVE  (a \o b)[i] = s[IF i < k THEN i ELSE i + 1]
  <2>1. CASE i < k
    <3>1. i \in 1..(k - 1)
      BY <1>0, <2>1
    <3> QED
      BY <1>0, <1>1, <1>4, <2>1, <3>1
  <2>2. CASE ~(i < k)
    <3>1. i - (k - 1) \in 1..(Len(s) - k) /\ k + (i - (k - 1)) = i + 1
      BY <1>0, <2>2
    <3>2. b[i - (k - 1)] = s[i + 1]
      BY <1>2, <3>1
    <3> QED
      BY <1>0, <1>4, <2>2, <3>2
  <2> QED
    BY <2>1, <2>2
<1> QED
  BY <1>3, <1>4, <1>5

-----------------------------------------------------------------------------
(* The keys.                                                               *)

Bound == [input : Nat \ {0}, history : Nat, sessions : Nat \ {0}, ids : Nat \ {0}]

LEMMA BoundIs == bound \in Bounds => bound \in Bound
BY PromptAssumption DEF Bound

\* What was entered fits the input line again.
LineInv ==
    /\ buffer \in Seq(Chars) /\ Len(buffer) <= bound.input
    /\ pos \in 0..Len(buffer)
    /\ history \in Seq(Seq(Chars)) /\ Len(history) <= bound.history
    /\ hist_pos \in 1..Len(history) + 1
    /\ \A k \in 1..Len(history) : Len(history[k]) <= bound.input
    /\ lost \in BOOLEAN
    /\ TextKept

ListInv ==
    /\ sess \in Seq(1..bound.ids) /\ Len(sess) \in 1..bound.sessions
    /\ active \in 1..Len(sess) /\ sidebar_sel \in 1..Len(sess)
    /\ next_id \in 2..bound.ids + 1
    /\ focus \in {"list", "input"}

BusyInv ==
    connected \in BOOLEAN /\ inflight \subseteq 1..bound.sessions /\ fs \subseteq 1..bound.sessions

\* The index of the session that offers choices is still its own, unless a
\* deletion has moved it.
OfferInv ==
    /\ pending = None \/ pending \in Offers
    /\ pending # None /\ ~pending.stale =>
         pending.sidx \in 1..Len(sess) /\ sess[pending.sidx] = pending.of

PickInv == pick \in Picks /\ ChoiceInItsSession

PromptInv == bound \in Bounds /\ LineInv /\ ListInv /\ BusyInv /\ OfferInv /\ PickInv

LEMMA PromptInvTypes == PromptInv => PromptTypeOK
<1> SUFFICES ASSUME PromptInv
    PROVE  PromptTypeOK
  OBVIOUS
<1>1. DOMAIN sess = 1..Len(sess)
  BY LenProperties DEF PromptInv, ListInv
<1> QED
  BY <1>1 DEF PromptInv, LineInv, ListInv, BusyInv, OfferInv, PickInv, PromptTypeOK

LEMMA AddIs ==
    ASSUME bound \in Bounds, bound' = bound, ListInv, OfferInv, AddSession, pending' = pending
    PROVE  ListInv' /\ OfferInv'
<1> DEFINE ids == 1..bound.ids
<1>1. bound \in Bound
  BY BoundIs
<1>2. /\ sess \in Seq(ids) /\ Len(sess) \in Nat /\ next_id \in ids /\ sess' = Append(sess, next_id)
  BY <1>1 DEF ListInv, AddSession, Bound
<1>3. /\ sess' \in Seq(ids) /\ Len(sess') = Len(sess) + 1
      /\ \A i \in 1..Len(sess) : sess'[i] = sess[i]
  <2> HIDE DEF ids
  <2> QED
    BY <1>2, AppendProperties
<1>4. ListInv'
  BY <1>1, <1>2, <1>3 DEF ListInv, AddSession, Bound
<1>5. OfferInv'
  BY <1>2, <1>3 DEF OfferInv
<1> QED
  BY <1>4, <1>5

LEMMA DeleteIs ==
    ASSUME bound \in Bounds, bound' = bound, ListInv, OfferInv, NEW i \in 1..Len(sess), DeleteAt(i)
    PROVE  ListInv' /\ OfferInv'
<1> DEFINE ids == 1..bound.ids
<1>1. bound \in Bound /\ sess \in Seq(ids) /\ Len(sess) \in Nat
  BY BoundIs DEF ListInv
<1>2. /\ active \in 1..Len(sess) /\ sidebar_sel \in 1..Len(sess) /\ Len(sess) \in 1..bound.sessions
      /\ next_id \in 2..bound.ids + 1 /\ focus \in {"list", "input"} /\ bound.sessions \in Nat
      /\ bound.ids \in Nat
  BY <1>1 DEF ListInv, Bound
<1>3. CASE Len(sess) = 1
  <2>1. /\ sess' = <<next_id>> /\ Len(sess') = 1 /\ next_id \in ids /\ next_id' = next_id + 1
        /\ active' = 1 /\ sidebar_sel' = sidebar_sel /\ focus' = focus /\ next_id <= bound.ids
    BY <1>2, <1>3 DEF DeleteAt
  <2>2. sess' \in Seq(ids)
    BY <2>1
  <2>3. ListInv'
    BY <1>2, <1>3, <2>1, <2>2 DEF ListInv
  <2>4. OfferInv'
    <3>1. pending # None => pending \in Offers /\ (~pending.stale => i <= pending.sidx)
      BY <1>3 DEF OfferInv
    <3>2. pending' # None => pending' \in Offers /\ pending'.stale
      BY <3>1 DEF DeleteAt, Offers, None
    <3> QED
      BY <3>2 DEF OfferInv
  <2> QED
    BY <2>3, <2>4
<1>4. CASE Len(sess) # 1
  <2>1. /\ sess' = RemoveAt(sess, i) /\ next_id' = next_id /\ focus' = focus
        /\ active' = IF active > i \/ active > Len(sess') THEN active - 1 ELSE active
        /\ sidebar_sel' = IF sidebar_sel > Len(sess') THEN Len(sess') ELSE sidebar_sel
    BY <1>4 DEF DeleteAt
  <2>2. /\ sess' \in Seq(ids) /\ Len(sess') = Len(sess) - 1
        /\ \A j \in 1..(Len(sess) - 1) : sess'[j] = sess[IF j < i THEN j ELSE j + 1]
    <3> HIDE DEF ids
    <3> QED
      BY <1>1, <2>1, RemoveAtIs
  <2>3. ListInv'
    <3>1. Len(sess') \in 1..bound.sessions
      BY <1>2, <1>4, <2>2
    <3>2. active' \in 1..Len(sess') /\ sidebar_sel' \in 1..Len(sess')
      BY <1>2, <1>4, <2>1, <2>2
    <3> QED
      BY <1>2, <2>1, <2>2, <3>1, <3>2 DEF ListInv
  <2>4. OfferInv'
    <3>1. CASE pending = None
      BY <3>1 DEF DeleteAt, OfferInv
    <3>2. CASE pending # None /\ i <= pending.sidx
      <4>1. pending' \in Offers /\ pending'.stale
        BY <3>2 DEF DeleteAt, OfferInv, Offers
      <4> QED
        BY <4>1 DEF OfferInv
    <3>3. CASE pending # None /\ ~(i <= pending.sidx)
      <4>1. pending' = pending /\ pending \in Offers /\ pending.sidx \in Nat
        BY <3>3 DEF DeleteAt, OfferInv, Offers
      <4>2. ~pending.stale => pending.sidx \in 1..(Len(sess) - 1) /\ pending.sidx < i
        BY <1>1, <3>3, <4>1 DEF OfferInv
      <4> QED
        BY <2>2, <3>3, <4>1, <4>2 DEF OfferInv
    <3> QED
      BY <3>1, <3>2, <3>3
  <2> QED
    BY <2>3, <2>4
<1> QED
  BY <1>3, <1>4
LEMMA LineSame ==
    ASSUME LineInv, bound' = bound, UNCHANGED lineVars
    PROVE  LineInv'
BY DEF LineInv, TextKept, lineVars

LEMMA ListSame ==
    ASSUME ListInv, bound' = bound, UNCHANGED listVars
    PROVE  ListInv'
BY DEF ListInv, listVars

LEMMA BusySame ==
    ASSUME BusyInv, bound' = bound, UNCHANGED <<connected, busyVars>>
    PROVE  BusyInv'
BY DEF BusyInv, busyVars

LEMMA OfferSame ==
    ASSUME OfferInv, UNCHANGED <<sess, pending>>
    PROVE  OfferInv'
BY DEF OfferInv

LEMMA OfferNone ==
    ASSUME pending' = None
    PROVE  OfferInv'
BY DEF OfferInv

LEMMA PickSame ==
    ASSUME PickInv, UNCHANGED pick
    PROVE  PickInv'
BY DEF PickInv, ChoiceInItsSession

\* The line becomes b; what is recalled next becomes k.
LEMMA TypedIs ==
    ASSUME LineInv, bound' = bound, UNCHANGED <<history, lost>>,
           NEW b \in Seq(Chars), Len(b) <= bound.input, NEW p \in 0..Len(b), Typed(b, p),
           NEW k \in 1..Len(history) + 1, hist_pos' = k
    PROVE  LineInv'
BY DEF LineInv, TextKept, Typed

LEMMA TypeInv ==
    ASSUME PromptInv, NEW c \in Chars, Type(c)
    PROVE  PromptInv'
<1> DEFINE b == InsertAt(buffer, pos + 1, c)
<1>1. /\ bound \in Bounds /\ bound' = bound /\ LineInv /\ ListInv /\ BusyInv /\ OfferInv /\ PickInv
      /\ UNCHANGED <<history, hist_pos, lost, listVars, connected, busyVars, pending, pick>>
      /\ Len(buffer) < bound.input /\ Typed(b, pos + 1)
  BY DEF PromptInv, Type
<1>2. /\ buffer \in Seq(Chars) /\ Len(buffer) \in Nat /\ bound.input \in Nat
      /\ pos \in 0..Len(buffer) /\ hist_pos \in 1..Len(history) + 1
  BY <1>1, BoundIs DEF LineInv, Bound
<1>3. b \in Seq(Chars) /\ Len(b) = Len(buffer) + 1
  <2>1. pos + 1 \in 1..Len(buffer) + 1
    BY <1>2
  <2> QED
    BY ONLY <1>2, <2>1, InsertAtIs, c \in Chars
<1>4. Len(b) <= bound.input /\ pos + 1 \in 0..Len(b)
  BY <1>1, <1>2, <1>3
<1> HIDE DEF b
<1>5. LineInv'
  BY ONLY <1>1, <1>2, <1>3, <1>4, TypedIs
<1>6. sess' = sess
  BY <1>1 DEF listVars
<1> QED
  BY <1>1, <1>5, <1>6, ListSame, BusySame, OfferSame, PickSame DEF PromptInv

LEMMA EditInv ==
    ASSUME PromptInv, Edit
    PROVE  PromptInv'
<1>1. /\ bound \in Bounds /\ bound' = bound /\ LineInv /\ ListInv /\ BusyInv /\ OfferInv /\ PickInv
      /\ UNCHANGED <<history, hist_pos, lost, listVars, connected, busyVars, pending, pick>>
  BY DEF PromptInv, Edit
<1>2. /\ buffer \in Seq(Chars) /\ Len(buffer) \in Nat /\ bound.input \in Nat
      /\ Len(buffer) <= bound.input
      /\ pos \in 0..Len(buffer) /\ hist_pos \in 1..Len(history) + 1
  BY <1>1, BoundIs DEF LineInv, Bound
<1>3. LineInv'
  <2>1. CASE pos > 0 /\ Typed(RemoveAt(buffer, pos), pos - 1)
    <3> DEFINE b == RemoveAt(buffer, pos)
    <3>1. b \in Seq(Chars) /\ Len(b) = Len(buffer) - 1
      <4>1. pos \in 1..Len(buffer)
        BY <1>2, <2>1
      <4> QED
        BY ONLY <1>2, <4>1, RemoveAtIs
    <3>2. Len(b) <= bound.input /\ pos - 1 \in 0..Len(b)
      BY <1>2, <2>1, <3>1
    <3>3. Typed(b, pos - 1)
      BY <2>1
    <3> HIDE DEF b
    <3> QED
      BY ONLY <1>1, <1>2, <3>1, <3>2, <3>3, TypedIs
  <2>2. CASE pos < Len(buffer) /\ Typed(buffer, pos + 1)
    <3>1. pos + 1 \in 0..Len(buffer) /\ Typed(buffer, pos + 1)
      BY <1>2, <2>2
    <3> QED
      BY ONLY <1>1, <1>2, <3>1, TypedIs
  <2>3. CASE Typed(buffer, 0)
    <3>1. 0 \in 0..Len(buffer)
      BY <1>2
    <3> QED
      BY ONLY <1>1, <1>2, <2>3, <3>1, TypedIs
  <2>4. CASE Typed(buffer, Len(buffer))
    <3>1. Len(buffer) \in 0..Len(buffer)
      BY <1>2
    <3> QED
      BY ONLY <1>1, <1>2, <2>4, <3>1, TypedIs
  <2> QED
    BY <2>1, <2>2, <2>3, <2>4 DEF Edit
<1>4. sess' = sess
  BY <1>1 DEF listVars
<1> QED
  BY <1>1, <1>3, <1>4, ListSame, BusySame, OfferSame, PickSame DEF PromptInv

\* A line of the history is put back.
LEMMA RecallIs ==
    ASSUME LineInv, bound' = bound, UNCHANGED <<history, lost>>,
           NEW k \in 1..Len(history), Recall(k)
    PROVE  LineInv'
<1>1. /\ history[k] \in Seq(Chars) /\ Len(history[k]) <= bound.input /\ Len(history[k]) \in Nat
      /\ Len(history) \in Nat
  BY DEF LineInv
<1>2. /\ Len(history[k]) \in 0..Len(history[k]) /\ k \in 1..Len(history) + 1
      /\ Typed(history[k], Len(history[k])) /\ hist_pos' = k
  BY <1>1 DEF Recall
<1> QED
  BY <1>1, <1>2, TypedIs

LEMMA HistoryInv ==
    ASSUME PromptInv, HistoryUp \/ HistoryDown
    PROVE  PromptInv'
<1>1. /\ bound \in Bounds /\ bound' = bound /\ LineInv /\ ListInv /\ BusyInv /\ OfferInv /\ PickInv
      /\ UNCHANGED <<history, lost, listVars, connected, busyVars, pending, pick>>
  BY DEF PromptInv, HistoryUp, HistoryDown
<1>2. hist_pos \in 1..Len(history) + 1 /\ Len(history) \in Nat /\ bound.input \in Nat
  BY <1>1, BoundIs DEF LineInv, Bound
<1>3. LineInv'
  <2>1. CASE HistoryUp
    <3>1. hist_pos - 1 \in 1..Len(history) /\ Recall(hist_pos - 1)
      BY <1>2, <2>1 DEF HistoryUp
    <3> QED
      BY ONLY <1>1, <3>1, RecallIs
  <2>2. CASE HistoryDown /\ hist_pos # Len(history)
    <3>1. hist_pos + 1 \in 1..Len(history) /\ Recall(hist_pos + 1)
      BY <1>2, <2>2 DEF HistoryDown
    <3> QED
      BY ONLY <1>1, <3>1, RecallIs
  <2>3. CASE HistoryDown /\ hist_pos = Len(history)
    <3> DEFINE b == <<>>
    <3>1. /\ hist_pos + 1 \in 1..Len(history) + 1 /\ hist_pos' = hist_pos + 1 /\ Typed(b, 0)
          /\ b \in Seq(Chars) /\ Len(b) <= bound.input /\ 0 \in 0..Len(b)
      BY <1>2, <2>3 DEF HistoryDown
    <3> HIDE DEF b
    <3> QED
      BY ONLY <1>1, <3>1, TypedIs
  <2> QED
    BY <2>1, <2>2, <2>3
<1>4. sess' = sess
  BY <1>1 DEF listVars
<1> QED
  BY <1>1, <1>3, <1>4, ListSame, BusySame, OfferSame, PickSame DEF PromptInv
LEMMA ListKeyInv ==
    ASSUME PromptInv, ListKey
    PROVE  PromptInv'
<1>1. /\ bound \in Bounds /\ bound' = bound /\ LineInv /\ ListInv /\ BusyInv /\ OfferInv /\ PickInv
      /\ UNCHANGED <<lineVars, connected, busyVars, pick>>
  BY DEF PromptInv, ListKey
<1>2. ListInv' /\ OfferInv'
  <2>1. CASE /\ sidebar_sel' \in {sidebar_sel - 1, sidebar_sel + 1} \cap DOMAIN sess
             /\ UNCHANGED <<sess, active, next_id, focus, pending>>
    <3>1. DOMAIN sess = 1..Len(sess)
      BY <1>1, LenProperties DEF ListInv
    <3>2. ListInv'
      BY <1>1, <2>1, <3>1 DEF ListInv
    <3> QED
      BY <1>1, <2>1, <3>2, OfferSame
  <2>2. CASE /\ active' = sidebar_sel /\ focus' = "input"
             /\ UNCHANGED <<sess, sidebar_sel, next_id, pending>>
    <3>1. ListInv'
      BY <1>1, <2>2 DEF ListInv
    <3> QED
      BY <1>1, <2>2, <3>1, OfferSame
  <2>3. CASE AddSession /\ UNCHANGED pending
    BY ONLY <1>1, <2>3, AddIs
  <2>4. CASE DeleteAt(sidebar_sel)
    <3>1. sidebar_sel \in 1..Len(sess)
      BY <1>1 DEF ListInv
    <3> QED
      BY ONLY <1>1, <2>4, <3>1, DeleteIs
  <2> QED
    BY <2>1, <2>2, <2>3, <2>4 DEF ListKey
<1> QED
  BY <1>1, <1>2, LineSame, BusySame, PickSame DEF PromptInv

LEMMA LeaveInv ==
    ASSUME PromptInv, Leave
    PROVE  PromptInv'
<1>1. /\ bound \in Bounds /\ bound' = bound /\ LineInv /\ ListInv /\ BusyInv /\ PickInv
      /\ UNCHANGED <<lineVars, sess, active, sidebar_sel, next_id, connected, busyVars, pick>>
      /\ focus' = "list" /\ pending' = None
  BY DEF PromptInv, Leave
<1>2. ListInv'
  BY <1>1 DEF ListInv
<1> QED
  BY <1>1, <1>2, LineSame, BusySame, OfferNone, PickSame DEF PromptInv

LEMMA SendLineIs ==
    ASSUME bound \in Bounds, bound' = bound, ListInv, BusyInv, Send, connected' = connected
    PROVE  BusyInv'
<1>1. active \in 1..bound.sessions
  BY BoundIs DEF ListInv, Bound
<1> QED
  BY <1>1 DEF BusyInv, Send

\* The line is saved, if the history has room for it.
LEMMA SaveIs ==
    ASSUME bound \in Bounds, bound' = bound, LineInv, save_history, Typed(<<>>, 0),
           lost' \in BOOLEAN, lost' => lost \/ buffer \notin ToSet(history')
    PROVE  LineInv'
<1> DEFINE S == Seq(Chars)
<1>1. /\ buffer \in S /\ Len(buffer) <= bound.input
      /\ history \in Seq(S) /\ Len(history) \in Nat /\ Len(history) <= bound.history
      /\ \A k \in 1..Len(history) : Len(history[k]) <= bound.input
      /\ bound.history \in Nat /\ bound.input \in Nat /\ lost \in BOOLEAN
      /\ lost => Len(history) = bound.history
  BY BoundIs DEF LineInv, TextKept, Bound
<1>2. /\ buffer' = <<>> /\ pos' = 0 /\ buffer' \in S /\ Len(buffer') <= bound.input
      /\ pos' \in 0..Len(buffer')
  BY <1>1 DEF Typed
<1> HIDE DEF S
<1>3. CASE Len(history) < bound.history
  <2> DEFINE h == Append(history, buffer)
  <2>1. /\ h \in Seq(S) /\ Len(h) = Len(history) + 1
        /\ \A k \in 1..Len(history) : h[k] = history[k]
        /\ h[Len(history) + 1] = buffer
    BY ONLY <1>1, AppendProperties
  <2>2. history' = h
    BY <1>3 DEF save_history
  <2> HIDE DEF h
  <2>3. hist_pos' = Len(h) + 1
    BY <2>2 DEF save_history
  <2>4. \A k \in 1..Len(h) : Len(h[k]) <= bound.input
    BY <1>1, <2>1
  <2>5. buffer \in ToSet(h)
    <3>1. DOMAIN h = 1..Len(h) /\ Len(history) + 1 \in 1..Len(h)
      BY <1>1, <2>1, LenProperties
    <3> QED
      BY <2>1, <3>1 DEF ToSet
  <2>6. ~lost'
    BY <1>1, <1>3, <2>2, <2>5
  <2>7. Len(h) <= bound.history /\ hist_pos' \in 1..Len(h) + 1
    BY <1>1, <1>3, <2>1, <2>3
  <2> QED
    BY <1>2, <2>1, <2>2, <2>4, <2>6, <2>7 DEF LineInv, TextKept, S
<1>4. CASE ~(Len(history) < bound.history)
  <2>1. history' = history /\ hist_pos' = Len(history) + 1 /\ Len(history) = bound.history
    BY <1>1, <1>4 DEF save_history
  <2> QED
    BY <1>1, <1>2, <2>1 DEF LineInv, TextKept, S
<1> QED
  BY <1>3, <1>4

LEMMA SubmitInv ==
    ASSUME PromptInv, submit_message
    PROVE  PromptInv'
<1>1. /\ bound \in Bounds /\ bound' = bound /\ LineInv /\ ListInv /\ BusyInv /\ OfferInv /\ PickInv
      /\ save_history /\ Typed(<<>>, 0)
      /\ UNCHANGED <<connected, pick>>
  BY DEF PromptInv, submit_message
<1>2. lost \in BOOLEAN
  BY <1>1 DEF LineInv
<1>3. CASE /\ \/ AddSession /\ UNCHANGED <<fs, pending>>
              \/ DeleteAt(active) /\ UNCHANGED fs
              \/ /\ fs' \in {fs, IF connected THEN fs \cup {active} ELSE fs}
                 /\ UNCHANGED <<listVars, pending>>
           /\ UNCHANGED <<inflight, lost>>
  <2>1. LineInv'
    <3>1. lost' \in BOOLEAN /\ (lost' => lost \/ buffer \notin ToSet(history'))
      BY <1>2, <1>3
    <3> QED
      BY ONLY <1>1, <3>1, SaveIs
  <2>2. ListInv' /\ OfferInv'
    <3>1. CASE AddSession /\ UNCHANGED pending
      BY ONLY <1>1, <3>1, AddIs
    <3>2. CASE DeleteAt(active)
      <4>1. active \in 1..Len(sess)
        BY <1>1 DEF ListInv
      <4> QED
        BY ONLY <1>1, <3>2, <4>1, DeleteIs
    <3>3. CASE UNCHANGED <<listVars, pending>>
      BY <1>1, <3>3, ListSame, OfferSame DEF listVars
    <3> QED
      BY <1>3, <3>1, <3>2, <3>3
  <2>3. BusyInv'
    <3>1. active \in 1..bound.sessions
      BY <1>1, BoundIs DEF ListInv, Bound
    <3>2. fs' \subseteq fs \cup {active}
      BY <1>3
    <3> QED
      BY <1>1, <1>3, <3>1, <3>2 DEF BusyInv
  <2> QED
    BY <1>1, <2>1, <2>2, <2>3, PickSame DEF PromptInv
<1>4. CASE /\ pending' = None /\ Send
           /\ lost' = (lost \/ (~Sends /\ buffer \notin ToSet(history')))
           /\ UNCHANGED listVars
  <2>1. LineInv'
    <3>1. lost' \in BOOLEAN
      BY <1>2, <1>4
    <3>2. lost' => lost \/ buffer \notin ToSet(history')
      BY <1>4
    <3> QED
      BY ONLY <1>1, <3>1, <3>2, SaveIs
  <2>2. BusyInv'
    BY ONLY <1>1, <1>4, SendLineIs
  <2> QED
    BY <1>1, <1>4, <2>1, <2>2, ListSame, OfferNone, PickSame DEF PromptInv
<1> QED
  BY <1>3, <1>4 DEF submit_message

\* The choice is sent from the session that offered it, which is on the
\* screen, at the index it is kept under.
LEMMA AcceptInv ==
    ASSUME PromptInv, NEW k \in 1..MaxChoices, accept_choice(k)
    PROVE  PromptInv'
<1>1. /\ bound \in Bounds /\ bound' = bound /\ LineInv /\ ListInv /\ BusyInv /\ OfferInv
      /\ pending' = None /\ Send /\ UNCHANGED <<lineVars, listVars, connected>>
      /\ Offered
      /\ pick' = [of |-> pending.of, stale |-> pending.stale,
                  to |-> IF Sends THEN sess[active] ELSE 0, refused |-> ~Sends]
  BY DEF PromptInv, accept_choice
<1>2. pending \in Offers /\ pending.sidx = active
  BY <1>1 DEF OfferInv, Offered
<1>3. sess[active] \in Nat
  BY <1>1, BoundIs DEF ListInv, Bound
<1>4. pick' \in Picks
  BY <1>1, <1>2, <1>3 DEF Picks, Offers
<1>5. ~pending.stale => sess[active] = pending.of
  BY <1>1, <1>2 DEF OfferInv, Offered
<1>6. PickInv'
  BY <1>1, <1>4, <1>5 DEF PickInv, ChoiceInItsSession
<1>7. BusyInv'
  BY ONLY <1>1, SendLineIs
<1> QED
  BY <1>1, <1>6, <1>7, LineSame, ListSame, OfferNone DEF PromptInv

LEMMA HighlightInv ==
    ASSUME PromptInv, Highlight
    PROVE  PromptInv'
<1>1. /\ bound \in Bounds /\ bound' = bound /\ LineInv /\ ListInv /\ BusyInv /\ OfferInv /\ PickInv
      /\ UNCHANGED <<lineVars, listVars, connected, busyVars, pick>>
      /\ pending # None
  BY DEF PromptInv, Highlight, Offered
<1>2. PICK k \in 1..pending.n : pending' = [pending EXCEPT !.selected = k]
  BY DEF Highlight
<1>3. pending \in Offers
  BY <1>1 DEF OfferInv
<1>4. k \in 1..MaxChoices
  BY <1>2, <1>3, ChoicesAssumption DEF Offers
<1>5. /\ pending' \in Offers /\ pending'.sidx = pending.sidx /\ pending'.of = pending.of
      /\ pending'.stale = pending.stale
  BY <1>2, <1>3, <1>4 DEF Offers
<1>6. sess' = sess
  BY <1>1 DEF listVars
<1>7. OfferInv'
  BY <1>1, <1>3, <1>5, <1>6 DEF OfferInv
<1> QED
  BY <1>1, <1>7, LineSame, ListSame, BusySame, PickSame DEF PromptInv

\* An offer is made for the session at the index its request was sent under.
LEMMA OfferInIs ==
    ASSUME bound \in Bounds, bound' = bound, ListInv, OfferInv, NEW i \in 1..bound.sessions,
           NEW reply \in Seq(Line), pending' = OfferIn(i, reply), sess' = sess
    PROVE  OfferInv'
<1>1. /\ bound \in Bound /\ sess \in Seq(1..bound.ids) /\ Len(sess) \in Nat
      /\ active \in 1..Len(sess)
  BY BoundIs DEF ListInv
<1>2. i \in Nat /\ bound.ids \in Nat
  BY <1>1 DEF Bound
<1>3. DOMAIN sess = 1..Len(sess)
  BY <1>1, LenProperties
<1> DEFINE n == Len(detect_choices(reply))
           there == i \in DOMAIN sess
           o == [n |-> n, selected |-> 1, sidx |-> i, stale |-> ~there,
                 of |-> IF there THEN sess[i] ELSE sess[active]]
<1>4. n \in {0} \cup 2..MaxChoices
  BY DetectBounds
<1>5. pending' = IF pending # None \/ n = 0 THEN pending ELSE o
  BY DEF OfferIn
<1> HIDE DEF n
<1>6. CASE pending # None \/ n = 0
  <2>1. pending' = pending
    BY <1>5, <1>6
  <2> QED
    BY <2>1, OfferSame
<1>7. CASE ~(pending # None \/ n = 0)
  <2>1. pending' = o
    BY <1>5, <1>7
  <2>2. o.of \in Nat
    BY <1>1, <1>2, <1>3
  <2>3. n \in 2..MaxChoices /\ 1 \in 1..MaxChoices
    BY <1>4, <1>7, ChoicesAssumption
  <2>4. o \in Offers
    BY <1>2, <2>2, <2>3 DEF Offers
  <2>5. ~o.stale => o.sidx \in 1..Len(sess) /\ sess[o.sidx] = o.of
    BY <1>3
  <2> HIDE DEF o
  <2> QED
    BY <2>1, <2>4, <2>5 DEF OfferInv
<1> QED
  BY <1>6, <1>7

LEMMA AnsweredInv ==
    ASSUME PromptInv, NEW i \in 1..bound.sessions, NEW reply \in Replies, Answered(i, reply)
    PROVE  PromptInv'
<1>1. /\ bound \in Bounds /\ bound' = bound /\ LineInv /\ ListInv /\ BusyInv /\ OfferInv /\ PickInv
      /\ inflight' = inflight \ {i} /\ pending' = OfferIn(i, reply)
      /\ UNCHANGED <<lineVars, listVars, connected, fs, pick>>
  BY DEF PromptInv, Answered, AnswerFor
<1>2. reply \in Seq(Line)
  BY PromptAssumption
<1>3. sess' = sess
  BY <1>1 DEF listVars
<1>4. OfferInv'
  BY ONLY <1>1, <1>2, <1>3, OfferInIs, i \in 1..bound.sessions
<1>5. BusyInv'
  BY <1>1 DEF BusyInv
<1> QED
  BY <1>1, <1>4, <1>5, LineSame, ListSame, PickSame DEF PromptInv

LEMMA EndInv ==
    ASSUME PromptInv, Disconnect \/ \E i \in 1..bound.sessions : FsAnswered(i)
    PROVE  PromptInv'
<1>1. /\ bound \in Bounds /\ bound' = bound /\ LineInv /\ ListInv /\ BusyInv /\ OfferInv /\ PickInv
      /\ UNCHANGED <<lineVars, listVars, pending, pick>>
      /\ connected' \in {connected, FALSE} /\ inflight' \subseteq inflight /\ fs' \subseteq fs
  BY DEF PromptInv, Disconnect, FsAnswered
<1>2. BusyInv'
  BY <1>1 DEF BusyInv
<1>3. sess' = sess
  BY <1>1 DEF listVars
<1> QED
  BY <1>1, <1>2, <1>3, LineSame, ListSame, OfferSame, PickSame DEF PromptInv

LEMMA StepInv == PromptInv /\ [PromptNext]_promptVars => PromptInv'
<1> SUFFICES ASSUME PromptInv, [PromptNext]_promptVars
    PROVE  PromptInv'
  OBVIOUS
<1>1. CASE UNCHANGED promptVars
  <2>1. /\ bound \in Bounds /\ bound' = bound /\ LineInv /\ ListInv /\ BusyInv /\ OfferInv /\ PickInv
        /\ UNCHANGED <<lineVars, listVars, connected, busyVars, pending, pick>>
    BY <1>1 DEF PromptInv, promptVars
  <2>2. sess' = sess
    BY <2>1 DEF listVars
  <2> QED
    BY <2>1, <2>2, LineSame, ListSame, BusySame, OfferSame, PickSame DEF PromptInv
<1>2. ASSUME NEW c \in Chars, Type(c) PROVE PromptInv'
  BY <1>2, TypeInv
<1>3. CASE Edit
  BY <1>3, EditInv
<1>4. CASE HistoryUp \/ HistoryDown
  BY <1>4, HistoryInv
<1>5. CASE ListKey
  BY <1>5, ListKeyInv
<1>6. CASE Leave
  BY <1>6, LeaveInv
<1>7. CASE submit_message
  BY <1>7, SubmitInv
<1>8. CASE Highlight
  BY <1>8, HighlightInv
<1>9. ASSUME NEW k \in 1..MaxChoices, accept_choice(k) PROVE PromptInv'
  BY <1>9, AcceptInv
<1>10. ASSUME NEW i \in 1..bound.sessions, NEW reply \in Replies, Answered(i, reply)
       PROVE  PromptInv'
  BY <1>10, AnsweredInv
<1>11. CASE Disconnect \/ \E i \in 1..bound.sessions : FsAnswered(i)
  BY <1>11, EndInv
<1> QED
  BY <1>1, <1>2, <1>3, <1>4, <1>5, <1>6, <1>7, <1>8, <1>9, <1>10, <1>11 DEF PromptNext

LEMMA StartInv == PromptInit => PromptInv
<1> SUFFICES ASSUME PromptInit
    PROVE  PromptInv
  OBVIOUS
<1>1. bound \in Bound /\ bound \in Bounds
  BY BoundIs DEF PromptInit
<1>2. LineInv
  <2>1. /\ buffer = <<>> /\ pos = 0 /\ history = <<>> /\ hist_pos = 1 /\ ~lost /\ lost \in BOOLEAN
        /\ bound.input \in Nat /\ bound.history \in Nat
    BY <1>1 DEF PromptInit, Bound
  <2> QED
    BY <2>1 DEF LineInv, TextKept
<1>3. ListInv
  <2>1. /\ sess = <<1>> /\ next_id = 2 /\ active = 1 /\ sidebar_sel = 1 /\ focus = "input"
        /\ bound.sessions \in Nat \ {0} /\ bound.ids \in Nat \ {0}
    BY <1>1 DEF PromptInit, Bound
  <2>2. 1 \in 1..bound.ids /\ 1 \in 1..bound.sessions /\ 2 \in 2..bound.ids + 1
    BY <2>1
  <2>3. sess \in Seq(1..bound.ids) /\ Len(sess) = 1
    BY <2>1, <2>2
  <2> QED
    BY <2>1, <2>2, <2>3 DEF ListInv
<1>4. BusyInv
  BY DEF PromptInit, BusyInv
<1>5. OfferInv
  BY DEF PromptInit, OfferInv
<1>6. PickInv
  BY DEF PromptInit, PickInv, Picks, NoPick, ChoiceInItsSession
<1> QED
  BY <1>1, <1>2, <1>3, <1>4, <1>5, <1>6 DEF PromptInv

LEMMA AlwaysPromptInv == PromptSpec => []PromptInv
BY StartInv, StepInv, PTL DEF PromptSpec

\* The cursor stays in the line, the line and its history within their
\* buffers, and the active session and the highlighted one in the list,
\* whatever keys are pressed and replies come (input.c, session_manager.c).
THEOREM PromptTypeCorrect == PromptSpec => []PromptTypeOK
BY AlwaysPromptInv, PromptInvTypes, PTL

\* A line that could not be sent can be recalled as long as the history has
\* room: save_history comes before submit_message looks whether it can send.
THEOREM LineRecalled == PromptSpec => []TextKept
<1>1. PromptInv => TextKept
  BY DEF PromptInv, LineInv
<1> QED
  BY <1>1, AlwaysPromptInv, PTL

\* A choice is sent in the session that offered it, as long as no deletion
\* has moved that session.
THEOREM ChoiceGoesHome == PromptSpec => []ChoiceInItsSession
<1>1. PromptInv => ChoiceInItsSession
  BY DEF PromptInv, PickInv
<1> QED
  BY <1>1, AlwaysPromptInv, PTL
=============================================================================
