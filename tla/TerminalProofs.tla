--------------------------- MODULE TerminalProofs ---------------------------
(***************************************************************************)
(* Proofs about ChatView and Overlay, and about everything between the     *)
(* socket and the screen together.                                         *)
(*   LineIs     what wrap_line_end returns for any text and any width      *)
(*   WrapIs     what its repetition makes of a text, by induction from the *)
(*              text's end, hence WrapFaithful                             *)
(*   AfterIs    where chat_render is after each message, by induction from *)
(*              the newest                                                 *)
(*   CursorsAre where curses puts the characters of a line that fits, by   *)
(*              induction along it, hence PaneFaithful                     *)
(*   ViewInv, OverlayInv   the inductive invariants                        *)
(*   TermParts  MCTerminal's behaviours are those of its components        *)
(* Induction over sets, Min and sequences: see PromptProofs and            *)
(* FramingProofs.                                                          *)
(***************************************************************************)
EXTENDS MCTerminal, FramingProofs, PromptProofs, TLAPS

-----------------------------------------------------------------------------
(* Numbers.                                                                *)

\* The greatest of a set is what no other element exceeds.
LEMMA MaxIs ==
    ASSUME NEW T, T \subseteq Int, NEW m \in T, \A x \in T : x <= m
    PROVE  Max(T) = m
<1>1. /\ Max(T) \in T
      /\ \A x \in T : x <= Max(T)
  BY DEF Max
<1>2. m \in Int /\ Max(T) \in Int /\ m <= Max(T) /\ Max(T) <= m
  BY <1>1
<1> QED
  BY <1>2

LEMMA MaxOfTwo ==
    ASSUME NEW i \in Int, NEW j \in Int
    PROVE  Max({i, j}) = IF i < j THEN j ELSE i
<1>1. CASE i < j
  BY <1>1, MaxIs
<1>2. CASE ~(i < j)
  BY <1>2, MaxIs
<1> QED
  BY <1>1, <1>2

\* A bounded set of numbers has a greatest one.
LEMMA Greatest ==
    ASSUME NEW T, T \subseteq Nat, T # {}, NEW n \in Nat, \A x \in T : x <= n
    PROVE  Max(T) \in T /\ \A x \in T : x <= Max(T)
<1> DEFINE U == {n - x : x \in T}
<1>1. U \subseteq Nat /\ U # {}
  <2>1. \A x \in T : n - x \in Nat
    OBVIOUS
  <2> QED
    BY <2>1
<1>2. PICK u \in U : \A v \in U : u <= v
  BY <1>1, Least
<1>3. PICK m \in T : u = n - m
  BY <1>2
<1>4. \A x \in T : x <= m
  <2> SUFFICES ASSUME NEW x \in T
      PROVE  x <= m
    OBVIOUS
  <2>1. n - x \in U /\ n - m <= n - x
    BY <1>2, <1>3
  <2> QED
    BY <2>1
<1>5. T \subseteq Int
  OBVIOUS
<1>6. Max(T) = m
  BY <1>4, <1>5, MaxIs
<1> QED
  BY <1>4, <1>6

-----------------------------------------------------------------------------
(* One line.                                                               *)

\* The width of a piece of a text.
LEMMA ColumnsIs ==
    ASSUME NEW text, NEW from \in Nat, NEW p \in Nat, from <= p
    PROVE  /\ Columns(text, from, p) \in Nat
           /\ \A q \in Nat : p <= q => Columns(text, from, p) <= Columns(text, from, q)
<1> DEFINE WideIn(q) == {i \in from..q - 1 : text[i] = Wide}
<1>1. ASSUME NEW q \in Nat
      PROVE  IsFiniteSet(WideIn(q)) /\ Cardinality(WideIn(q)) \in Nat
  <2>1. IsFiniteSet(from..q - 1)
    BY FS_Interval
  <2>2. IsFiniteSet(WideIn(q))
    BY <2>1, FS_Subset
  <2> QED
    BY <2>2, FS_CardinalityType
<1>2. Columns(text, from, p) \in Nat
  BY <1>1 DEF Columns
<1>3. ASSUME NEW q \in Nat, p <= q
      PROVE  Columns(text, from, p) <= Columns(text, from, q)
  <2>1. WideIn(p) \subseteq WideIn(q)
    BY <1>3
  <2>2. Cardinality(WideIn(p)) <= Cardinality(WideIn(q))
    BY <1>1, <2>1, FS_Subset
  <2>3. Cardinality(WideIn(p)) \in Nat /\ Cardinality(WideIn(q)) \in Nat
    BY <1>1
  <2>4. /\ Columns(text, from, p) = (p - from) + Cardinality(WideIn(p))
        /\ Columns(text, from, q) = (q - from) + Cardinality(WideIn(q))
    BY DEF Columns
  <2> HIDE DEF WideIn
  <2> QED
    BY <1>3, <2>2, <2>3, <2>4
<1> QED
  BY <1>2, <1>3

\* The width of nothing, and of a single character.
LEMMA ColumnsOne ==
    ASSUME NEW text, NEW from \in Nat
    PROVE  /\ Columns(text, from, from) = 0
           /\ Columns(text, from, from + 1) = IF text[from] = Wide THEN 2 ELSE 1
<1> DEFINE WideIn(q) == {i \in from..q - 1 : text[i] = Wide}
<1>1. WideIn(from) = {} /\ WideIn(from + 1) = IF text[from] = Wide THEN {from} ELSE {}
  OBVIOUS
<1>2. Cardinality({}) = 0 /\ Cardinality({from}) = 1
  BY FS_EmptySet, FS_Singleton
<1>3. \A q : Columns(text, from, q) = (q - from) + Cardinality(WideIn(q))
  BY DEF Columns
<1> HIDE DEF WideIn
<1>4. Cardinality(WideIn(from)) = 0
  BY <1>1, <1>2
<1>5. Cardinality(WideIn(from + 1)) = IF text[from] = Wide THEN 1 ELSE 0
  BY <1>1, <1>2
<1>6. from - from = 0 /\ (from + 1) - from = 1
  OBVIOUS
<1> QED
  BY <1>3, <1>4, <1>5, <1>6

\* The width of one character more.
LEMMA ColumnsStep ==
    ASSUME NEW text, NEW from \in Nat, NEW p \in Nat, from <= p
    PROVE  Columns(text, from, p + 1) =
             Columns(text, from, p) + (IF text[p] = Wide THEN 2 ELSE 1)
<1> DEFINE WideIn(q) == {i \in from..q - 1 : text[i] = Wide}
<1>1. IsFiniteSet(WideIn(p)) /\ Cardinality(WideIn(p)) \in Nat /\ p \notin WideIn(p)
  <2>1. IsFiniteSet(from..p - 1)
    BY FS_Interval
  <2>2. IsFiniteSet(WideIn(p))
    BY <2>1, FS_Subset
  <2> QED
    BY <2>2, FS_CardinalityType
<1>2. WideIn(p + 1) = IF text[p] = Wide THEN WideIn(p) \cup {p} ELSE WideIn(p)
  OBVIOUS
<1>3. \A q : Columns(text, from, q) = (q - from) + Cardinality(WideIn(q))
  BY DEF Columns
<1> HIDE DEF WideIn
<1>4. Cardinality(WideIn(p + 1)) = Cardinality(WideIn(p)) + (IF text[p] = Wide THEN 1 ELSE 0)
  <2>1. Cardinality(WideIn(p) \cup {p}) = Cardinality(WideIn(p)) + 1
    BY <1>1, FS_AddElement
  <2> QED
    BY <1>1, <1>2, <2>1
<1>5. (p + 1) - from = (p - from) + 1 /\ p - from \in Int
  OBVIOUS
<1> QED
  BY <1>1, <1>3, <1>4, <1>5

PaneLine == [from : Nat, end : Nat, next : Nat]

\* What WrapFaithful says of a line l in avail columns: where it ends and the
\* next one begins, that the line takes no more than its room, holds no newline, leaves
\* out only a newline or blanks, and ends where the next word does not fit; and
\* that a line that takes nothing is a wide character in a single column.
Faithful(text, avail, l) ==
    /\ l \in PaneLine
    /\ l.from \in 1..Len(text)
    /\ l.next \in l.from..Len(text) + 1
    /\ l.end \in l.from..l.next
    /\ l.next = l.from => avail = 1 /\ text[l.from] = Wide
    /\ l.next # l.from =>
         /\ Columns(text, l.from, l.end) <= avail
         /\ \A p \in l.from..l.end - 1 : text[p] # Newline
         /\ \/ l.next = l.end + 1 /\ text[l.end] = Newline
            \/ \A p \in l.end..l.next - 1 : text[p] \in Blanks
         /\ l.next <= Len(text) /\ text[l.next - 1] # Newline =>
               Columns(text, l.from, WordEnd(text, l.next)) > avail
         /\ l.next = l.end /\ l.next <= Len(text) =>
               \A p \in l.from + 1..l.end - 1 : text[p] \notin Blanks

\* The line that starts at from.
LineAt(text, from, avail) ==
    [from |-> from, end |-> wrap_line_end(text, from, avail).end,
     next |-> wrap_line_end(text, from, avail).next]

\* Where a word ends: behind its start, and behind every place in front of
\* which there is neither a blank nor a newline.
LEMMA WordEndIs ==
    ASSUME NEW text, Len(text) \in Nat, NEW p \in 1..Len(text),
           NEW stop \in 1..Len(text), text[stop] # Newline,
           \A q \in p..stop - 1 : text[q] \notin Blanks,
           \A q \in p + 1..stop - 1 : text[q] # Newline
    PROVE  WordEnd(text, p) \in stop + 1..Len(text) + 1 /\ WordEnd(text, p) > p
<1> DEFINE T == {q \in p + 1..Len(text) + 1 : q = Len(text) + 1 \/ text[q - 1] \in Blanks
                                                                \/ text[q] = Newline}
<1>1. T \subseteq Nat /\ Len(text) + 1 \in T
  OBVIOUS
<1>2. WordEnd(text, p) = Min(T) /\ Min(T) \in T
  BY <1>1, MinIs DEF WordEnd
<1>3. \A q \in T : q > stop
  <2> SUFFICES ASSUME NEW q \in T, q <= stop
      PROVE  FALSE
    OBVIOUS
  <2>1. q \in p + 1..stop /\ q <= Len(text)
    OBVIOUS
  <2>2. q - 1 \in p..stop - 1 /\ text[q - 1] \notin Blanks
    BY <2>1
  <2>3. text[q] # Newline
    BY <2>1
  <2> QED
    BY <2>1, <2>2, <2>3
<1> QED
  BY <1>2, <1>3

\* Beyond the first character that does not fit nothing fits.
LEMMA TooWide ==
    ASSUME NEW text, Len(text) \in Nat, NEW from \in 1..Len(text), NEW avail \in Nat,
           NEW stop \in from..Len(text), text[stop] # Newline,
           Columns(text, from, stop + 1) > avail,
           NEW p \in from..Len(text),
           \A q \in p..stop - 1 : text[q] \notin Blanks,
           \A q \in p + 1..stop - 1 : text[q] # Newline
    PROVE  Columns(text, from, WordEnd(text, p)) > avail
<1>1. p \in 1..Len(text) /\ stop \in 1..Len(text)
  OBVIOUS
<1>2. WordEnd(text, p) \in stop + 1..Len(text) + 1
  BY <1>1, WordEndIs
<1>3. WordEnd(text, p) \in Nat /\ stop + 1 <= WordEnd(text, p) /\ stop + 1 \in Nat
      /\ from \in Nat /\ from <= stop + 1 /\ from <= WordEnd(text, p)
  BY <1>2
<1>4. /\ Columns(text, from, stop + 1) <= Columns(text, from, WordEnd(text, p))
      /\ Columns(text, from, stop + 1) \in Nat /\ Columns(text, from, WordEnd(text, p)) \in Nat
  BY <1>3, ColumnsIs
<1> QED
  BY <1>4

\* wrap_line_end, from any character of any text (utf8.c).
LEMMA LineIs ==
    ASSUME NEW text \in Seq(Character), NEW from \in 1..Len(text), NEW avail \in Nat \ {0}
    PROVE  Faithful(text, avail, LineAt(text, from, avail))
<1> DEFINE n == Len(text)
           T == {p \in from..n + 1 : p = n + 1 \/ text[p] = Newline
                                               \/ Columns(text, from, p + 1) > avail}
           stop == Min(T)
           blanks == {p \in from + 1..stop - 1 : text[p] \in Blanks}
           l == LineAt(text, from, avail)
<1>1. n \in Nat /\ from \in Nat
  OBVIOUS
<1>2. stop \in T /\ \A p \in T : stop <= p
  <2>1. T \subseteq Nat /\ n + 1 \in T
    BY <1>1
  <2> HIDE DEF T
  <2> QED
    BY <2>1, MinIs
<1>3. stop \in from..n + 1 /\ stop \in Nat
  BY <1>1, <1>2
<1>4. \A p \in from..stop - 1 : text[p] # Newline /\ ~(Columns(text, from, p + 1) > avail)
  <2> SUFFICES ASSUME NEW p \in from..stop - 1
      PROVE  p \notin T
    BY <1>1, <1>3
  <2> HIDE DEF T
  <2> QED
    BY <1>1, <1>2, <1>3
<1>5. stop <= n /\ text[stop] # Newline => Columns(text, from, stop + 1) > avail
  BY <1>1, <1>2
<1> HIDE DEF T
<1>6. wrap_line_end(text, from, avail) = LineTo(text, from, stop)
  BY DEF wrap_line_end, T
<1> HIDE DEF stop
<1>7. Columns(text, from, stop) <= avail
  <2>1. CASE stop = from
    BY <1>1, <2>1, ColumnsOne
  <2>2. CASE stop # from
    <3>1. stop - 1 \in from..stop - 1 /\ (stop - 1) + 1 = stop
      BY <1>1, <1>3, <2>2
    <3>2. ~(Columns(text, from, (stop - 1) + 1) > avail)
      BY <1>4, <3>1
    <3>3. Columns(text, from, stop) \in Nat
      BY <1>1, <1>3, ColumnsIs
    <3>4. ~(Columns(text, from, stop) > avail)
      BY <3>1, <3>2
    <3> QED
      BY <3>3, <3>4
  <2> QED
    BY <2>1, <2>2
<1>8. CASE stop <= n /\ text[stop] = Newline
  <2>1. l = [from |-> from, end |-> stop, next |-> stop + 1]
    BY <1>6, <1>8 DEF LineAt, LineTo
  <2>2. l \in PaneLine /\ l.next \in from..n + 1 /\ l.next # from /\ l.next - 1 = stop
        /\ l.next = l.end + 1 /\ l.next # l.end /\ l.end \in from..l.next
    BY <1>1, <1>3, <1>8, <2>1 DEF PaneLine
  <2> QED
    BY <1>4, <1>7, <1>8, <2>1, <2>2 DEF Faithful
<1>9. CASE ~(stop <= n /\ text[stop] = Newline) /\ (stop = n + 1 \/ blanks = {})
  <2>1. l = [from |-> from, end |-> stop, next |-> stop]
    BY <1>6, <1>9 DEF LineAt, LineTo
  <2>2. l \in PaneLine /\ l.next \in from..n + 1 /\ l.end \in from..l.next
    BY <1>1, <1>3, <2>1 DEF PaneLine
  <2>3. ASSUME stop = from
        PROVE  avail = 1 /\ text[from] = Wide
    <3>1. Columns(text, from, from + 1) > avail
      BY <1>1, <1>3, <1>5, <1>9, <2>3
    <3> QED
      BY <1>1, <3>1, ColumnsOne
  <2>4. ASSUME stop <= n
        PROVE  Columns(text, from, WordEnd(text, stop)) > avail
    <3>1. stop \in from..n /\ text[stop] # Newline
      BY <1>1, <1>3, <1>9, <2>4
    <3>2. Columns(text, from, stop + 1) > avail
      BY <1>5, <1>9, <2>4
    <3>3. stop..stop - 1 = {} /\ stop + 1..stop - 1 = {}
      BY <1>3
    <3> QED
      BY <1>1, <3>1, <3>2, <3>3, TooWide
  <2>5. stop <= n => \A p \in from + 1..stop - 1 : text[p] \notin Blanks
    <3>1. stop <= n => blanks = {}
      BY <1>1, <1>3, <1>9
    <3> QED
      BY <3>1
  <2>6. stop..stop - 1 = {}
    BY <1>3
  <2> QED
    BY <1>4, <1>7, <2>1, <2>2, <2>3, <2>4, <2>5, <2>6 DEF Faithful
<1>10. CASE stop <= n /\ text[stop] # Newline /\ blanks # {}
  <2> DEFINE e == Max(blanks)
             N == {p \in e..n + 1 : p = n + 1 \/ text[p] \notin Blanks}
             next == Min(N)
  <2>1. e \in blanks /\ \A p \in blanks : p <= e
    <3>1. blanks \subseteq Nat /\ \A p \in blanks : p <= stop
      BY <1>1, <1>3
    <3> HIDE DEF blanks
    <3> QED
      BY <1>3, <1>10, <3>1, Greatest
  <2>2. e \in from + 1..stop - 1 /\ text[e] \in Blanks /\ e \in Nat /\ e < n
    BY <1>1, <1>3, <1>10, <2>1
  <2>3. \A p \in e + 1..stop - 1 : text[p] \notin Blanks
    <3> SUFFICES ASSUME NEW p \in e + 1..stop - 1, p \in blanks
        PROVE  FALSE
      BY <1>1, <1>3, <2>2
    <3> HIDE DEF blanks, e
    <3> QED
      BY <1>3, <2>1, <2>2
  <2>4. l = [from |-> from, end |-> e, next |-> next]
    BY <1>1, <1>3, <1>6, <1>10 DEF LineAt, LineTo
  <2> HIDE DEF blanks, e
  <2>5. next \in N /\ \A p \in N : next <= p
    <3>1. N \subseteq Nat /\ n + 1 \in N
      BY <1>1, <2>2
    <3> HIDE DEF N
    <3> QED
      BY <3>1, MinIs
  <2>6. next \in e..n + 1 /\ next # e
    BY <2>2, <2>5
  <2>7. \A p \in e..next - 1 : text[p] \in Blanks
    <3> SUFFICES ASSUME NEW p \in e..next - 1
        PROVE  p \notin N
      BY <1>1, <2>2, <2>6
    <3> HIDE DEF N
    <3> QED
      BY <1>1, <2>2, <2>5, <2>6
  <2> HIDE DEF N, next
  <2>8. ASSUME next <= n
        PROVE  Columns(text, from, WordEnd(text, next)) > avail
    <3>1. stop \in from..n /\ next \in from..n
      BY <1>1, <1>3, <1>10, <2>2, <2>6, <2>8
    <3>2. Columns(text, from, stop + 1) > avail
      BY <1>5, <1>10
    <3>3. \A q \in next..stop - 1 : text[q] \notin Blanks
      BY <1>3, <2>2, <2>3, <2>6
    <3>4. \A q \in next + 1..stop - 1 : text[q] # Newline
      BY <1>1, <1>3, <1>4, <3>1
    <3> QED
      BY <1>1, <1>10, <3>1, <3>2, <3>3, <3>4, TooWide
  <2>9. Columns(text, from, e) <= avail
    <3>1. from <= e /\ e <= stop
      BY <1>1, <1>3, <2>2
    <3>2. /\ Columns(text, from, e) <= Columns(text, from, stop)
          /\ Columns(text, from, e) \in Nat /\ Columns(text, from, stop) \in Nat
      BY <1>1, <1>3, <2>2, <3>1, ColumnsIs
    <3> QED
      BY <1>7, <3>2
  <2>10. l \in PaneLine /\ l.next \in from..n + 1 /\ l.next # from /\ l.next # l.end
         /\ l.from = from /\ l.end = e /\ l.next = next /\ l.end \in from..l.next
    BY <1>1, <2>2, <2>4, <2>6 DEF PaneLine
  <2>11. \A p \in from..e - 1 : text[p] # Newline
    BY <1>1, <1>3, <1>4, <2>2
  <2> QED
    BY <2>7, <2>8, <2>9, <2>10, <2>11 DEF Faithful
<1> QED
  BY <1>1, <1>3, <1>8, <1>9, <1>10
-----------------------------------------------------------------------------
(* All the lines.                                                          *)

\* f is computed from n + 1 down to 1, each step from what is at a later place,
\* or from nothing if that place is its own.
Descends(f, n, S, base, at, step) ==
    /\ f \in [1..n + 1 -> S]
    /\ f[n + 1] = base
    /\ \A p \in 1..n : f[p] = step[p][IF at[p] = p THEN base ELSE f[at[p]]]

\* Such a function there is.
LEMMA Downwards ==
    ASSUME NEW S, NEW n \in Nat, NEW base \in S, NEW at \in [1..n -> Nat],
           \A p \in 1..n : at[p] \in p..n + 1,
           NEW step \in [1..n -> [S -> S]]
    PROVE  \E f : Descends(f, n, S, base, at, step)
<1> DEFINE Right(f, p) == f[p] = step[p][IF at[p] = p THEN base ELSE f[at[p]]]
           D == {d \in Nat : \E f \in [1..n + 1 -> S] :
                   /\ f[n + 1] = base
                   /\ \A p \in 1..n : n + 1 - p <= d => Right(f, p)}
<1>1. 0 \in D
  <2> DEFINE f == [p \in 1..n + 1 |-> base]
  <2>1. f \in [1..n + 1 -> S] /\ f[n + 1] = base
    OBVIOUS
  <2>2. \A p \in 1..n : ~(n + 1 - p <= 0)
    OBVIOUS
  <2> HIDE DEF f
  <2> QED
    BY <2>1, <2>2
<1>2. ASSUME NEW d \in Nat, d \in D
      PROVE  d + 1 \in D
  <2>1. PICK f \in [1..n + 1 -> S] :
          /\ f[n + 1] = base
          /\ \A p \in 1..n : n + 1 - p <= d => Right(f, p)
    BY <1>2
  <2> DEFINE c == n - d
  <2>2. CASE c \in 1..n
    <3> DEFINE below == IF at[c] = c THEN base ELSE f[at[c]]
               g == [f EXCEPT ![c] = step[c][below]]
    <3>1. at[c] \in 1..n + 1 /\ below \in S /\ step[c] \in [S -> S] /\ step[c][below] \in S
      BY <2>2
    <3>2. /\ g \in [1..n + 1 -> S] /\ g[c] = step[c][below]
          /\ \A p \in 1..n + 1 : p # c => g[p] = f[p]
      BY <2>2, <3>1
    <3> HIDE DEF g
    <3>3. g[n + 1] = base
      BY <2>1, <2>2, <3>2
    <3>4. below = IF at[c] = c THEN base ELSE g[at[c]]
      BY <2>2, <3>1, <3>2
    <3>5. Right(g, c)
      BY <3>2, <3>4
    <3>6. ASSUME NEW p \in 1..n, n + 1 - p <= d
          PROVE  Right(g, p)
      <4>1. p # c /\ p \in 1..n + 1 /\ at[p] \in 1..n + 1 /\ at[p] # c
        BY <1>2, <3>6
      <4>2. g[p] = f[p] /\ g[at[p]] = f[at[p]]
        <5> HIDE DEF c
        <5> QED
          BY <3>2, <4>1
      <4> QED
        BY <2>1, <3>6, <4>2
    <3>7. \A p \in 1..n : n + 1 - p <= d + 1 => p = c \/ n + 1 - p <= d
      BY <1>2
    <3> HIDE DEF Right, c
    <3> QED
      BY <1>2, <3>2, <3>3, <3>5, <3>6, <3>7
  <2>3. CASE c \notin 1..n
    <3>1. \A p \in 1..n : n + 1 - p <= d + 1 => n + 1 - p <= d
      BY <1>2, <2>3
    <3> HIDE DEF Right
    <3>2. \A p \in 1..n : n + 1 - p <= d + 1 => Right(f, p)
      BY <2>1, <3>1
    <3> QED
      BY <1>2, <2>1, <3>2
  <2> QED
    BY <2>2, <2>3
<1>3. n \in D
  <2> HIDE DEF D
  <2> QED
    BY <1>1, <1>2, Induction
<1>4. \A p \in 1..n : n + 1 - p <= n
  OBVIOUS
<1> QED
  BY <1>3, <1>4 DEF Descends

\* lines is how the text is broken from the place from on.
Laid(text, avail, from, lines) ==
    /\ lines \in Seq(PaneLine)
    /\ lines = <<>> <=> from = Len(text) + 1
    /\ lines # <<>> =>
         /\ lines[1].from = from
         /\ \/ lines[Len(lines)].next = Len(text) + 1
            \/ lines[Len(lines)].next = lines[Len(lines)].from
    /\ \A k \in 1..Len(lines) : Faithful(text, avail, lines[k])
    /\ \A k \in 1..Len(lines) - 1 :
         /\ lines[k].next # lines[k].from
         /\ lines[k + 1].from = lines[k].next

\* A line that takes something, before the lines from where it ends.
LEMMA LaidBefore ==
    ASSUME NEW text, NEW avail, NEW l, Faithful(text, avail, l), l.next # l.from,
           Len(text) \in Nat,
           NEW rest, Laid(text, avail, l.next, rest)
    PROVE  Laid(text, avail, l.from, <<l>> \o rest)
<1> DEFINE lines == <<l>> \o rest
<1>1. l \in PaneLine /\ l.from \in 1..Len(text)
  BY DEF Faithful
<1>2. rest \in Seq(PaneLine) /\ Len(rest) \in Nat
  BY LenProperties DEF Laid
<1>3. <<l>> \in Seq(PaneLine) /\ Len(<<l>>) = 1
  BY <1>1
<1>4. /\ lines \in Seq(PaneLine)
      /\ Len(lines) = Len(rest) + 1
      /\ lines[1] = l
      /\ \A k \in 1..Len(rest) : lines[k + 1] = rest[k]
  BY <1>2, <1>3, ConcatProperties
<1> HIDE DEF lines
<1>5. lines # <<>> /\ l.from # Len(text) + 1
  BY <1>1, <1>2, <1>4
<1>6. \/ lines[Len(lines)].next = Len(text) + 1
      \/ lines[Len(lines)].next = lines[Len(lines)].from
  <2>1. CASE rest = <<>>
    <3>1. l.next = Len(text) + 1 /\ Len(lines) = 1
      BY <1>4, <2>1 DEF Laid
    <3> QED
      BY <1>4, <3>1
  <2>2. CASE rest # <<>>
    <3>1. Len(rest) \in 1..Len(rest)
      BY <1>2, <2>2, EmptySeq
    <3>2. lines[Len(lines)] = rest[Len(rest)]
      BY <1>4, <3>1
    <3> QED
      BY <2>2, <3>2 DEF Laid
  <2> QED
    BY <2>1, <2>2
<1>7. ASSUME NEW k \in 1..Len(lines)
      PROVE  Faithful(text, avail, lines[k])
  <2>1. CASE k = 1
    BY <1>4, <2>1
  <2>2. CASE k # 1
    <3>1. k - 1 \in 1..Len(rest) /\ lines[(k - 1) + 1] = rest[k - 1] /\ (k - 1) + 1 = k
      BY <1>2, <1>4, <2>2
    <3> QED
      BY <3>1 DEF Laid
  <2> QED
    BY <2>1, <2>2
<1>8. ASSUME NEW k \in 1..Len(lines) - 1
      PROVE  lines[k].next # lines[k].from /\ lines[k + 1].from = lines[k].next
  <2>1. k \in 1..Len(rest) /\ lines[k + 1] = rest[k]
    BY <1>2, <1>4
  <2>2. CASE k = 1
    <3>1. rest # <<>> /\ rest[1].from = l.next
      BY <1>2, <2>1 DEF Laid
    <3> QED
      BY <1>4, <2>1, <2>2, <3>1
  <2>3. CASE k # 1
    <3>1. k - 1 \in 1..Len(rest) - 1 /\ (k - 1) + 1 = k
      BY <1>2, <2>1, <2>3
    <3>2. lines[k] = rest[k - 1]
      BY <1>2, <1>4, <3>1
    <3>3. rest[k - 1].next # rest[k - 1].from /\ rest[k].from = rest[k - 1].next
      BY <3>1 DEF Laid
    <3> QED
      BY <2>1, <3>2, <3>3
  <2> QED
    BY <2>2, <2>3
<1>9. Laid(text, avail, l.from, lines)
  BY <1>4, <1>5, <1>6, <1>7, <1>8 DEF Laid
<1> QED
  BY <1>9 DEF lines
\* A line that takes nothing is the last.
LEMMA LaidStuck ==
    ASSUME NEW text, NEW avail, NEW l, Faithful(text, avail, l), l.next = l.from,
           Len(text) \in Nat
    PROVE  Laid(text, avail, l.from, <<l>>)
<1>1. l \in PaneLine /\ l.from \in 1..Len(text)
  BY DEF Faithful
<1>2. <<l>> \in Seq(PaneLine) /\ Len(<<l>>) = 1 /\ <<l>>[1] = l /\ <<l>> # <<>>
  BY <1>1
<1>3. l.from # Len(text) + 1 /\ 1..1 - 1 = {}
  BY <1>1
<1> QED
  BY <1>2, <1>3 DEF Laid

\* Wrap, the loop of count_rows and render_wrapped, on any text.
LEMMA WrapIs ==
    ASSUME NEW text \in Seq(Character), NEW x \in Int, NEW width \in Int
    PROVE  /\ Max({1, width - x}) \in Nat \ {0}
           /\ Laid(text, Max({1, width - x}), 1, Wrap(text, x, width))
<1> DEFINE avail == Max({1, width - x})
           n == Len(text)
           Line1(p) == [from |-> p, end |-> wrap_line_end(text, p, avail).end,
                        next |-> wrap_line_end(text, p, avail).next]
           Go(f) == [p \in 1..n + 1 |->
                       IF p = n + 1 THEN <<>>
                       ELSE <<Line1(p)>>
                            \o (IF wrap_line_end(text, p, avail).next = p THEN <<>>
                                ELSE f[wrap_line_end(text, p, avail).next])]
           F == CHOOSE f : f = Go(f)
<1>1. Wrap(text, x, width) = F[1]
  BY DEF Wrap
<1>2. n \in Nat
  OBVIOUS
<1>3. avail \in Nat \ {0}
  BY MaxOfTwo
<1> HIDE DEF avail
<1>4. ASSUME NEW p \in 1..n
      PROVE  /\ Faithful(text, avail, Line1(p))
             /\ Line1(p) \in PaneLine /\ Line1(p).next \in p..n + 1
             /\ wrap_line_end(text, p, avail).next = Line1(p).next
             /\ Line1(p).from = p
  <2>1. Line1(p) = LineAt(text, p, avail)
    BY DEF LineAt
  <2>2. Faithful(text, avail, Line1(p))
    BY <1>3, <2>1, LineIs
  <2>3. Line1(p).from = p
    OBVIOUS
  <2> QED
    BY <2>2, <2>3 DEF Faithful
<1> DEFINE S == Seq(PaneLine)
           at == [p \in 1..n |-> Line1(p).next]
           step == [p \in 1..n |-> [s \in S |-> <<Line1(p)>> \o s]]
<1>5. \E f : Descends(f, n, S, <<>>, at, step)
  <2> HIDE DEF Line1
  <2>1. \A p \in 1..n : Line1(p) \in PaneLine /\ Line1(p).next \in p..n + 1
    BY <1>4
  <2>2. at \in [1..n -> Nat] /\ \A p \in 1..n : at[p] \in p..n + 1
    BY <1>2, <2>1
  <2>3. \A p \in 1..n, s \in S : <<Line1(p)>> \o s \in S
    BY <2>1
  <2>4. step \in [1..n -> [S -> S]]
    BY <2>3
  <2>5. <<>> \in S
    OBVIOUS
  <2> HIDE DEF at, step, S, n
  <2> QED
    BY ONLY <1>2, <2>2, <2>4, <2>5, Downwards
<1>6. PICK f \in [1..n + 1 -> S] :
        /\ f[n + 1] = <<>>
        /\ \A p \in 1..n : f[p] = step[p][IF at[p] = p THEN <<>> ELSE f[at[p]]]
  BY <1>5 DEF Descends
<1>7. ASSUME NEW p \in 1..n
      PROVE  f[p] = <<Line1(p)>> \o (IF Line1(p).next = p THEN <<>> ELSE f[Line1(p).next])
  <2> DEFINE rest == IF Line1(p).next = p THEN <<>> ELSE f[Line1(p).next]
  <2>1. at[p] = Line1(p).next
    OBVIOUS
  <2>2. Line1(p).next \in 1..n + 1
    <3> HIDE DEF Line1
    <3> QED
      BY <1>2, <1>4
  <2>3. rest \in S
    <3> HIDE DEF Line1, S
    <3> QED
      BY <1>6, <2>2 DEF S
  <2>4. f[p] = step[p][rest]
    <3> HIDE DEF step, at, Line1
    <3> QED
      BY <1>6, <2>1
  <2>5. step[p][rest] = <<Line1(p)>> \o rest
    <3> HIDE DEF rest, Line1
    <3> QED
      BY <2>3
  <2> QED
    BY <2>4, <2>5
<1>8. f = Go(f)
  <2>1. ASSUME NEW p \in 1..n + 1
        PROVE  f[p] = Go(f)[p]
    <3>1. CASE p = n + 1
      BY <1>2, <1>6, <3>1
    <3>2. CASE p \in 1..n
      <4>1. p # n + 1
        BY <1>2, <3>2
      <4> HIDE DEF Line1
      <4>2. Go(f)[p] = <<Line1(p)>>
                          \o (IF wrap_line_end(text, p, avail).next = p THEN <<>>
                              ELSE f[wrap_line_end(text, p, avail).next])
        BY <4>1
      <4> QED
        BY <1>4, <1>7, <3>2, <4>2
    <3> QED
      BY <1>2, <3>1, <3>2
  <2>2. DOMAIN f = 1..n + 1 /\ DOMAIN Go(f) = 1..n + 1
    BY <1>6
  <2> QED
    BY <1>6, <2>1, <2>2
<1>9. F = Go(F)
  BY <1>8
<1> HIDE DEF F
<1>10. F[n + 1] = <<>>
  BY <1>2, <1>9
<1>11. ASSUME NEW p \in 1..n
       PROVE  F[p] = <<Line1(p)>> \o (IF Line1(p).next = p THEN <<>> ELSE F[Line1(p).next])
  <2>1. p # n + 1 /\ p \in 1..n + 1
    BY <1>2
  <2>2. F[p] = Go(F)[p]
    BY <1>9
  <2> HIDE DEF Line1
  <2>3. Go(F)[p] = <<Line1(p)>>
                      \o (IF wrap_line_end(text, p, avail).next = p THEN <<>>
                          ELSE F[wrap_line_end(text, p, avail).next])
    BY <2>1
  <2> QED
    BY <1>4, <2>2, <2>3
<1> HIDE DEF Line1, Go
<1> DEFINE D == {d \in Nat : \A p \in 1..n + 1 : n + 1 - p <= d => Laid(text, avail, p, F[p])}
<1>12. Laid(text, avail, n + 1, F[n + 1])
  <2>1. <<>> \in Seq(PaneLine) /\ Len(<<>>) = 0
    OBVIOUS
  <2> QED
    BY <1>10, <2>1 DEF Laid
<1>13. 0 \in D
  <2>1. \A p \in 1..n + 1 : n + 1 - p <= 0 => p = n + 1
    BY <1>2
  <2> QED
    BY <1>12, <2>1
<1>14. ASSUME NEW d \in Nat, d \in D
       PROVE  d + 1 \in D
  <2> SUFFICES ASSUME NEW p \in 1..n + 1, n + 1 - p <= d + 1
      PROVE  Laid(text, avail, p, F[p])
    OBVIOUS
  <2>1. CASE p = n + 1
    BY <1>12, <2>1
  <2>2. CASE p # n + 1
    <3>1. p \in 1..n
      BY <1>2, <2>2
    <3> DEFINE l == Line1(p)
               q == l.next
    <3>2. Faithful(text, avail, l) /\ l.from = p /\ q \in p..n + 1
      BY <1>4, <3>1
    <3>3. F[p] = <<l>> \o (IF q = p THEN <<>> ELSE F[q])
      BY <1>11, <3>1
    <3>4. CASE q = p
      <4>1. <<l>> \in Seq(PaneLine)
        BY <3>2 DEF Faithful
      <4>2. F[p] = <<l>>
        BY <3>3, <3>4, <4>1, ConcatEmptySeq
      <4> QED
        BY <1>2, <3>2, <3>4, <4>2, LaidStuck
    <3>5. CASE q # p
      <4>1. q \in 1..n + 1 /\ n + 1 - q <= d
        BY <1>2, <1>14, <3>1, <3>2, <3>5
      <4>2. Laid(text, avail, q, F[q])
        BY <1>14, <4>1
      <4> HIDE DEF l
      <4> QED
        BY <1>2, <3>2, <3>3, <3>5, <4>2, LaidBefore
    <3> QED
      BY <3>4, <3>5
  <2> QED
    BY <2>1, <2>2
<1>15. Nat \subseteq D
  <2> HIDE DEF D
  <2> QED
    BY <1>13, <1>14, Induction
<1>16. n \in D /\ 1 \in 1..n + 1 /\ n + 1 - 1 <= n
  <2> HIDE DEF D
  <2> QED
    BY <1>2, <1>15
<1>17. Laid(text, avail, 1, F[1])
  BY <1>16
<1> QED
  BY <1>1, <1>3, <1>17 DEF avail
\* The prefix of a message, its text, and the width of the pane.
LEMMA MessageIs ==
    ASSUME ViewTypeOK, NEW i \in DOMAIN msgs
    PROVE  /\ msgs[i].text \in Seq(Character) /\ PrefixOf(i) \in Nat
           /\ size.w \in Nat \ {0} /\ size.h \in Nat \ {0}
<1>1. msgs[i] \in [is_user : BOOLEAN, text : Seq(Character)]
  BY LenProperties, ElementOfSeq DEF ViewTypeOK
<1>2. PrefixOf(i) \in Nat
  BY ViewAssumption DEF PrefixOf
<1>3. size.w \in Nat \ {0} /\ size.h \in Nat \ {0}
  BY ViewAssumption DEF ViewTypeOK
<1> QED
  BY <1>1, <1>2, <1>3

\* WrapFaithful holds of any messages in any pane.
LEMMA WrapHolds == ViewTypeOK => WrapFaithful
<1> SUFFICES ASSUME ViewTypeOK, NEW i \in DOMAIN msgs
    PROVE  LET text == msgs[i].text
               avail == Max({1, size.w - PrefixOf(i)})
               lines == Wrap(text, PrefixOf(i), size.w)
           IN  IF Endless(lines)
               THEN avail = 1 /\ text[lines[Len(lines)].from] = Wide
               ELSE /\ \A k \in DOMAIN lines :
                         lines[k].from = IF k = 1 THEN 1 ELSE lines[k - 1].next
                    /\ (IF lines = <<>> THEN 1 ELSE lines[Len(lines)].next) = Len(text) + 1
                    /\ \A l \in ToSet(lines) :
                         /\ Columns(text, l.from, l.end) <= avail
                         /\ \A p \in l.from..l.end - 1 : text[p] # Newline
                         /\ \/ l.next = l.end + 1 /\ text[l.end] = Newline
                            \/ \A p \in l.end..l.next - 1 : text[p] \in Blanks
                         /\ l.next <= Len(text) /\ text[l.next - 1] # Newline =>
                               Columns(text, l.from, WordEnd(text, l.next)) > avail
                         /\ l.next = l.end /\ l.next <= Len(text) =>
                               \A p \in l.from + 1..l.end - 1 : text[p] \notin Blanks
  BY DEF WrapFaithful
<1> DEFINE text == msgs[i].text
           avail == Max({1, size.w - PrefixOf(i)})
           lines == Wrap(text, PrefixOf(i), size.w)
<1>1. text \in Seq(Character) /\ PrefixOf(i) \in Int /\ size.w \in Int
  BY MessageIs
<1>2. avail \in Nat \ {0} /\ Laid(text, avail, 1, lines)
  <2> HIDE DEF text
  <2> QED
    BY <1>1, WrapIs
<1>3. Len(text) \in Nat
  BY <1>1
<1> HIDE DEF text, avail, lines
<1>4. lines \in Seq(PaneLine) /\ Len(lines) \in Nat /\ DOMAIN lines = 1..Len(lines)
  BY <1>2, LenProperties DEF Laid
<1>5. ToSet(lines) = {lines[k] : k \in 1..Len(lines)}
  BY <1>4 DEF ToSet
<1>6. CASE Endless(lines)
  <2>1. PICK k \in 1..Len(lines) : lines[k].next = lines[k].from
    BY <1>5, <1>6 DEF Endless
  <2>2. ~(k \in 1..Len(lines) - 1)
    BY <1>2, <2>1 DEF Laid
  <2>3. k = Len(lines)
    <3>1. k \in 1..Len(lines) /\ Len(lines) \in Nat
      BY <1>4, <2>1
    <3> QED
      BY ONLY <2>2, <3>1
  <2>4. Faithful(text, avail, lines[Len(lines)])
    BY <1>2, <2>3 DEF Laid
  <2>5. avail = 1 /\ text[lines[Len(lines)].from] = Wide
    BY <2>1, <2>3, <2>4 DEF Faithful
  <2> QED
    BY <1>6, <2>5 DEF text, avail, lines
<1>7. CASE ~Endless(lines)
  <2>1. \A k \in 1..Len(lines) : lines[k].next # lines[k].from
    BY <1>5, <1>7 DEF Endless
  <2>2. ASSUME NEW k \in DOMAIN lines
        PROVE  lines[k].from = IF k = 1 THEN 1 ELSE lines[k - 1].next
    <3>1. CASE k = 1
      <4>1. lines # <<>>
        BY <1>4, <3>1
      <4> QED
        BY <1>2, <3>1, <4>1 DEF Laid
    <3>2. CASE k # 1
      <4>1. k - 1 \in 1..Len(lines) - 1 /\ (k - 1) + 1 = k
        BY <1>4, <3>2
      <4>2. lines[(k - 1) + 1].from = lines[k - 1].next
        BY <1>2, <4>1 DEF Laid
      <4> QED
        BY <3>2, <4>1, <4>2
    <3> QED
      BY <3>1, <3>2
  <2>3. (IF lines = <<>> THEN 1 ELSE lines[Len(lines)].next) = Len(text) + 1
    <3>1. CASE lines = <<>>
      BY <1>2, <3>1 DEF Laid
    <3>2. CASE lines # <<>>
      <4>1. Len(lines) \in 1..Len(lines)
        BY <1>4, <3>2, EmptySeq
      <4> QED
        BY <1>2, <2>1, <3>2, <4>1 DEF Laid
    <3> QED
      BY <3>1, <3>2
  <2>4. ASSUME NEW l \in ToSet(lines)
        PROVE  /\ Columns(text, l.from, l.end) <= avail
               /\ \A p \in l.from..l.end - 1 : text[p] # Newline
               /\ \/ l.next = l.end + 1 /\ text[l.end] = Newline
                  \/ \A p \in l.end..l.next - 1 : text[p] \in Blanks
               /\ l.next <= Len(text) /\ text[l.next - 1] # Newline =>
                     Columns(text, l.from, WordEnd(text, l.next)) > avail
               /\ l.next = l.end /\ l.next <= Len(text) =>
                     \A p \in l.from + 1..l.end - 1 : text[p] \notin Blanks
    <3>1. Faithful(text, avail, l) /\ l.next # l.from
      BY <1>2, <1>5, <2>1 DEF Laid
    <3> QED
      BY <3>1 DEF Faithful
  <2> QED
    BY <1>7, <2>2, <2>3, <2>4 DEF text, avail, lines
<1> QED
  BY <1>6, <1>7 DEF lines

-----------------------------------------------------------------------------
(* The layout of the pane.                                                 *)

\* Every message takes a row at least, and as many as are drawn.
LEMMA CountIs ==
    ASSUME ViewTypeOK, NEW i \in DOMAIN msgs
    PROVE  count_rows(msgs[i].text, PrefixOf(i), size.w) \in Nat \ {0}
<1> DEFINE lines == Wrap(msgs[i].text, PrefixOf(i), size.w)
<1>1. lines \in Seq(PaneLine)
  <2>1. msgs[i].text \in Seq(Character) /\ PrefixOf(i) \in Int /\ size.w \in Int
    BY MessageIs
  <2> QED
    BY <2>1, WrapIs DEF Laid
<1>2. Len(lines) \in Nat
  BY <1>1
<1>3. count_rows(msgs[i].text, PrefixOf(i), size.w) = Max({1, Len(lines)})
  BY DEF count_rows
<1> HIDE DEF lines
<1> QED
  BY <1>2, <1>3, MaxOfTwo

Rows(i) == count_rows(msgs[i].text, PrefixOf(i), size.w)

\* y as chat_render leaves it after each message: it starts below the last row
\* but one and goes up by the rows of a message.
LEMMA AfterIs ==
    ASSUME ViewTypeOK
    PROVE  /\ Start \in 0..Len(msgs) /\ Len(msgs) \in Nat /\ size.h \in Nat \ {0}
           /\ \A i \in 1..Start + 1 : After[i] \in Int
           /\ After[Start + 1] = size.h - 1
           /\ \A i \in 1..Start : /\ Rows(i) \in Nat \ {0}
                                  /\ After[i] = After[i + 1] - Rows(i)
<1> DEFINE n == Start
           Go(f) == [i \in 1..Start + 1 |->
                        IF i = Start + 1 THEN size.h - 1
                        ELSE f[i + 1] - count_rows(msgs[i].text, PrefixOf(i), size.w)]
           F == CHOOSE f : f = Go(f)
<1>1. After = F
  BY DEF After
<1>2. Len(msgs) \in Nat /\ DOMAIN msgs = 1..Len(msgs) /\ scroll \in 0..Len(msgs)
  BY LenProperties DEF ViewTypeOK
<1>3. n \in Nat /\ n \in 0..Len(msgs)
  BY <1>2 DEF Start
<1>4. size.h \in Nat \ {0}
  BY ViewAssumption DEF ViewTypeOK
<1>5. \A i \in 1..n : Rows(i) \in Nat \ {0}
  BY <1>2, <1>3, CountIs DEF Rows
<1> DEFINE at == [i \in 1..n |-> i + 1]
           step == [i \in 1..n |-> [y \in Int |-> y - Rows(i)]]
<1>6. \E f : Descends(f, n, Int, size.h - 1, at, step)
  <2>1. at \in [1..n -> Nat] /\ \A i \in 1..n : at[i] \in i..n + 1
    BY <1>3
  <2>2. step \in [1..n -> [Int -> Int]]
    BY <1>5
  <2>3. size.h - 1 \in Int
    BY <1>4
  <2> HIDE DEF n, at, step
  <2> QED
    BY ONLY <1>3, <2>1, <2>2, <2>3, Downwards
<1>7. PICK f : Descends(f, n, Int, size.h - 1, at, step)
  BY <1>6
<1>8. f \in [1..n + 1 -> Int] /\ f[n + 1] = size.h - 1
  BY <1>7 DEF Descends
<1>9. ASSUME NEW i \in 1..n
      PROVE  f[i] = f[i + 1] - Rows(i)
  <2>1. at[i] = i + 1 /\ at[i] # i /\ i + 1 \in 1..n + 1
    BY <1>3
  <2>2. f[i] = step[i][f[i + 1]]
    <3> HIDE DEF at, step
    <3> QED
      BY <1>7, <2>1 DEF Descends
  <2>3. f[i + 1] \in Int
    BY <1>8, <2>1
  <2> QED
    BY <2>2, <2>3
<1>10. f = Go(f)
  <2>1. ASSUME NEW i \in 1..n + 1
        PROVE  f[i] = Go(f)[i]
    <3>1. CASE i = n + 1
      BY <1>8, <3>1
    <3>2. CASE i \in 1..n
      <4>1. i # n + 1
        BY <1>3, <3>2
      <4> QED
        BY <1>9, <3>2, <4>1 DEF Rows
    <3> QED
      BY <1>3, <3>1, <3>2
  <2>2. DOMAIN f = 1..n + 1 /\ DOMAIN Go(f) = 1..n + 1
    BY <1>8
  <2> QED
    BY <1>8, <2>1, <2>2
<1>11. F = Go(F)
  BY <1>10
<1> HIDE DEF F
<1>12. F[n + 1] = size.h - 1
  BY <1>3, <1>11
<1>13. ASSUME NEW i \in 1..n
       PROVE  F[i] = F[i + 1] - Rows(i)
  <2>1. i # n + 1 /\ i \in 1..n + 1
    BY <1>3
  <2> QED
    BY <1>11, <2>1 DEF Rows
<1> DEFINE D == {d \in Nat : \A i \in 1..n + 1 : n + 1 - i <= d => F[i] \in Int}
<1>14. 0 \in D
  <2>1. \A i \in 1..n + 1 : n + 1 - i <= 0 => i = n + 1
    BY <1>3
  <2> QED
    BY <1>4, <1>12, <2>1
<1>15. ASSUME NEW d \in Nat, d \in D
       PROVE  d + 1 \in D
  <2> SUFFICES ASSUME NEW i \in 1..n + 1, n + 1 - i <= d + 1
      PROVE  F[i] \in Int
    OBVIOUS
  <2>1. CASE i = n + 1
    BY <1>4, <1>12, <2>1
  <2>2. CASE i # n + 1
    <3>1. i \in 1..n /\ i + 1 \in 1..n + 1 /\ n + 1 - (i + 1) <= d
      BY <1>3, <2>2
    <3>2. F[i + 1] \in Int
      BY <1>15, <3>1
    <3>3. F[i] = F[i + 1] - Rows(i) /\ Rows(i) \in Nat
      BY <1>5, <1>13, <3>1
    <3> QED
      BY <3>2, <3>3
  <2> QED
    BY <2>1, <2>2
<1>16. Nat \subseteq D
  <2> HIDE DEF D
  <2> QED
    BY <1>14, <1>15, Induction
<1>17. n \in D /\ \A i \in 1..n + 1 : n + 1 - i <= n
  <2>1. n \in D
    <3> HIDE DEF D
    <3> QED
      BY <1>3, <1>16
  <2> QED
    BY <1>3, <2>1
<1>18. \A i \in 1..n + 1 : F[i] \in Int
  BY <1>17
<1> QED
  BY <1>1, <1>2, <1>3, <1>4, <1>5, <1>12, <1>13, <1>18
\* The row a message begins on, and the row it ends on.
LEMMA OwnRowsAre ==
    ASSUME ViewTypeOK, NEW i \in Rendered(After)
    PROVE  /\ i \in 1..Start /\ i \in DOMAIN msgs
           /\ After[i + 1] \in Nat /\ After[i] >= -1
           /\ Top(After, i) \in Nat
           /\ Top(After, i) = IF After[i] = -1 THEN 0 ELSE After[i]
           /\ OwnRows(After, i) = Top(After, i)..Top(After, i) + Rows(i) - 1
           /\ Rows(i) = Max({1, Len(Wrap(msgs[i].text, PrefixOf(i), size.w))})
           /\ Max(OwnRows(After, i)) = IF After[i] = -1 THEN After[i + 1] ELSE After[i + 1] - 1
<1> DEFINE n == Start
           y == After
           top == Top(y, i)
           last == top + Rows(i) - 1
<1>1. /\ n \in 0..Len(msgs) /\ Len(msgs) \in Nat
      /\ \A j \in 1..n + 1 : y[j] \in Int
      /\ \A j \in 1..n : Rows(j) \in Nat \ {0} /\ y[j] = y[j + 1] - Rows(j)
  BY AfterIs
<1>2. i \in 1..n /\ y[i + 1] >= 0 /\ y[i] >= -1
  BY DEF Rendered, Reached
<1>3. i \in DOMAIN msgs
  <2>1. DOMAIN msgs = 1..Len(msgs)
    BY LenProperties DEF ViewTypeOK
  <2> QED
    BY <1>1, <1>2, <2>1
<1> HIDE DEF n, y
<1>4. /\ i + 1 \in 1..n + 1 /\ y[i] \in Int /\ y[i + 1] \in Int
      /\ Rows(i) \in Nat \ {0} /\ y[i] = y[i + 1] - Rows(i)
  BY <1>1, <1>2
<1>5. top = (IF y[i] = -1 THEN 0 ELSE y[i])
  BY <1>2, <1>4, MaxOfTwo DEF Top
<1>6. OwnRows(y, i) = top..last /\ Rows(i) = Max({1, Len(Wrap(msgs[i].text, PrefixOf(i), size.w))})
  BY DEF OwnRows, Rows, count_rows
<1> HIDE DEF top
<1>7. /\ top \in Nat /\ last \in Nat /\ top <= last
      /\ last = IF y[i] = -1 THEN y[i + 1] ELSE y[i + 1] - 1
  BY <1>2, <1>4, <1>5
<1> HIDE DEF last
<1>8. Max(OwnRows(y, i)) = last
  <2>1. last \in OwnRows(y, i) /\ OwnRows(y, i) \subseteq Int /\ \A r \in OwnRows(y, i) : r <= last
    BY <1>6, <1>7
  <2> QED
    BY <2>1, MaxIs
<1> QED
  BY <1>2, <1>3, <1>4, <1>5, <1>6, <1>7, <1>8 DEF n, y, top, last

\* A line with a place in the pane and no tab: curses puts each of its
\* characters as far behind its start as utf8_cwidth counts columns.
LEMMA CursorsAre ==
    ASSUME NEW text, NEW l, l.from \in Nat, l.end \in Nat, l.from <= l.end,
           NEW row \in Int, NEW x \in Nat, size.w \in Nat, x < size.w,
           \A p \in l.from..l.end - 1 : text[p] # Tab,
           Columns(text, l.from, l.end) <= size.w - x,
           NEW at, at = Cursors(text, l, [row |-> row, col |-> x])
    PROVE  \A p \in l.from..l.end - 1 :
              Cell(text[p], at[p]) = [row |-> row, col |-> x + Columns(text, l.from, p)]
<1> DEFINE from == l.from
           end == l.end
           S(p) == x + Columns(text, from, p)
           Place(p) == IF S(p) < size.w THEN [row |-> row, col |-> S(p)]
                                        ELSE [row |-> row + 1, col |-> 0]
           Go(g) == [p \in from..end |-> IF p = from THEN [row |-> row, col |-> x]
                                         ELSE Advance(text[p - 1], g[p - 1])]
           F == CHOOSE g : g = Go(g)
           f == [p \in from..end |-> Place(p)]
<1>1. at = F
  BY DEF Cursors
<1>2. S(from) = x
  BY ColumnsOne
<1>3. ASSUME NEW p \in from..end
      PROVE  S(p) \in Nat /\ S(p) <= size.w
  <2>1. /\ p \in Nat /\ from <= p /\ p <= end
    OBVIOUS
  <2>2. /\ Columns(text, from, p) \in Nat /\ Columns(text, from, end) \in Nat
        /\ Columns(text, from, p) <= Columns(text, from, end)
    BY <2>1, ColumnsIs
  <2> QED
    BY <2>2
<1>4. ASSUME NEW p \in from..end - 1
      PROVE  /\ S(p + 1) = S(p) + (IF text[p] = Wide THEN 2 ELSE 1)
             /\ S(p) \in Nat /\ S(p + 1) \in Nat /\ S(p + 1) <= size.w /\ S(p) < size.w
             /\ text[p] # Tab
  <2>1. p \in Nat /\ from <= p /\ p \in from..end /\ p + 1 \in from..end
    OBVIOUS
  <2>2. /\ Columns(text, from, p + 1) = Columns(text, from, p) + (IF text[p] = Wide THEN 2 ELSE 1)
        /\ Columns(text, from, p) \in Nat
    BY <2>1, ColumnsStep, ColumnsIs
  <2> QED
    BY <1>3, <2>1, <2>2
<1> HIDE DEF S, from, end
<1>5. ASSUME NEW p \in from..end - 1
      PROVE  /\ Cell(text[p], Place(p)) = [row |-> row, col |-> S(p)]
             /\ Advance(text[p], Place(p)) = Place(p + 1)
  <2>1. Place(p) = [row |-> row, col |-> S(p)]
    BY <1>4
  <2>2. Cell(text[p], Place(p)) = [row |-> row, col |-> S(p)]
    BY <1>4, <2>1 DEF Cell
  <2> HIDE DEF Place
  <2>3. Advance(text[p], Place(p)) = IF S(p + 1) < size.w THEN [row |-> row, col |-> S(p + 1)]
                                                          ELSE [row |-> row + 1, col |-> 0]
    <3>1. CASE text[p] = Wide
      BY <1>4, <2>2, <3>1 DEF Advance
    <3>2. CASE text[p] # Wide
      BY <1>4, <2>2, <3>2 DEF Advance
    <3> QED
      BY <3>1, <3>2
  <2> QED
    BY <2>2, <2>3 DEF Place
<1>6. from \in Nat /\ end \in Nat /\ from <= end /\ Place(from) = [row |-> row, col |-> x]
  BY <1>2 DEF from, end
<1> HIDE DEF Place
<1>7. f = Go(f)
  <2>1. ASSUME NEW p \in from..end, p # from
        PROVE  Advance(text[p - 1], f[p - 1]) = f[p]
    <3>1. p - 1 \in from..end - 1 /\ (p - 1) + 1 = p /\ p - 1 \in from..end
      BY <1>6, <2>1
    <3>2. f[p - 1] = Place(p - 1) /\ f[p] = Place(p)
      BY <3>1
    <3> QED
      BY <1>5, <3>1, <3>2
  <2>2. f[from] = [row |-> row, col |-> x]
    BY <1>6
  <2> QED
    BY <2>1, <2>2
<1>8. F = Go(F)
  BY <1>7
<1> HIDE DEF F
<1>9. ASSUME NEW p \in from..end
      PROVE  F[p] = Place(p)
  <2> DEFINE T == {q \in from..end : F[q] # Place(q)}
  <2> SUFFICES ASSUME T # {}
      PROVE  FALSE
    OBVIOUS
  <2>1. T \subseteq Nat /\ T # {}
    BY <1>6
  <2>2. PICK m \in T : \A q \in T : m <= q
    <3> HIDE DEF T
    <3> QED
      BY <2>1, Least
  <2>3. m \in from..end /\ F[m] # Place(m)
    BY <2>2
  <2>4. m # from
    BY <1>6, <1>8, <2>3
  <2>5. m - 1 \in from..end - 1 /\ (m - 1) + 1 = m /\ m - 1 \in from..end /\ ~(m <= m - 1)
    BY <1>6, <2>3, <2>4
  <2>6. F[m - 1] = Place(m - 1)
    BY <2>2, <2>5
  <2>7. F[m] = Advance(text[m - 1], F[m - 1])
    BY <1>8, <2>3, <2>4
  <2> QED
    BY <1>5, <2>3, <2>5, <2>6, <2>7
<1>10. \A p \in from..end - 1 : p \in from..end
  BY <1>6
<1>11. \A p \in from..end - 1 : Cell(text[p], at[p]) = [row |-> row, col |-> S(p)]
  BY <1>1, <1>5, <1>9, <1>10
<1> QED
  BY <1>11 DEF S, from, end

\* A message that begins in the pane and has no tab is drawn as its lines are
\* counted.
LEMMA PlainDrawn ==
    ASSUME ViewTypeOK, ~Hung, NEW i \in Rendered(After), Plain(i)
    PROVE  /\ \A k \in LinesDrawn(i, Top(After, i)) :
               LET l == Wrap(msgs[i].text, PrefixOf(i), size.w)[k]
               IN  Drawn(i, Top(After, i), k) =
                     [p \in l.from..l.end - 1 |->
                        [row |-> Top(After, i) + k - 1,
                         col |-> PrefixOf(i) + Columns(msgs[i].text, l.from, p)]]
           /\ RowsOf(i, After) \subseteq OwnRows(After, i)
<1> DEFINE text == msgs[i].text
           x == PrefixOf(i)
           lines == Wrap(text, x, size.w)
           top == Top(After, i)
           avail == Max({1, size.w - x})
<1>1. /\ i \in DOMAIN msgs /\ top \in Nat
      /\ OwnRows(After, i) = top..top + Rows(i) - 1
      /\ Rows(i) = Max({1, Len(lines)})
  BY OwnRowsAre
<1>2. text \in Seq(Character) /\ x \in Nat /\ size.w \in Nat \ {0} /\ size.h \in Nat \ {0}
  BY <1>1, MessageIs
<1>3. x < size.w /\ \A p \in DOMAIN text : text[p] # Tab
  BY DEF Plain
<1>4. ~Endless(lines)
  BY DEF Hung, Rendered
<1>5. Laid(text, avail, 1, lines)
  <2> HIDE DEF text, x
  <2> QED
    BY <1>2, WrapIs
<1>6. avail = size.w - x
  <2> HIDE DEF x
  <2> QED
    BY <1>2, <1>3, MaxOfTwo
<1>7. Len(text) \in Nat /\ DOMAIN text = 1..Len(text)
  BY <1>2, LenProperties
<1> HIDE DEF text, x, lines, top, avail
<1>8. lines \in Seq(PaneLine) /\ Len(lines) \in Nat /\ DOMAIN lines = 1..Len(lines)
  BY <1>5, LenProperties DEF Laid
<1>9. ASSUME NEW k \in DOMAIN lines
      PROVE  Drawn(i, top, k) =
               [p \in lines[k].from..lines[k].end - 1 |->
                  [row |-> top + k - 1, col |-> x + Columns(text, lines[k].from, p)]]
  <2> DEFINE l == lines[k]
             row == top + k - 1
             at == Cursors(text, l, [row |-> row, col |-> x])
  <2>1. k \in 1..Len(lines) /\ row \in Int
    BY <1>1, <1>8
  <2>2. l.next # l.from
    BY <1>4, <1>8, <2>1 DEF Endless, ToSet
  <2>3. Faithful(text, avail, l)
    BY <1>5, <2>1 DEF Laid
  <2> HIDE DEF l
  <2>4. /\ l.from \in Nat /\ l.end \in Nat /\ l.next \in Nat
        /\ l.from \in 1..Len(text) /\ l.next <= Len(text) + 1
        /\ Columns(text, l.from, l.end) <= size.w - x
    BY <1>6, <1>7, <2>2, <2>3 DEF Faithful, PaneLine
  <2>5. l.from..l.end - 1 \subseteq DOMAIN text
    <3>1. l.end <= l.next /\ l.end \in Nat
      BY <2>3, <2>4 DEF Faithful
    <3> QED
      BY <1>7, <2>4, <3>1
  <2>6. ASSUME NEW p \in l.from..l.end - 1
        PROVE  Cell(text[p], at[p]) = [row |-> row, col |-> x + Columns(text, l.from, p)]
    <3>1. l.from <= l.end
      BY <2>4
    <3>2. \A q \in l.from..l.end - 1 : text[q] # Tab
      BY <1>3, <2>5 DEF text
    <3> HIDE DEF row, at
    <3>3. at = Cursors(text, l, [row |-> row, col |-> x])
      BY DEF at
    <3>4. x < size.w
      BY <1>3 DEF x
    <3>5. x \in Nat /\ size.w \in Nat
      BY <1>2 DEF x
    <3>6. row \in Int /\ l.from \in Nat /\ l.end \in Nat
      BY <2>1, <2>4
    <3>7. Columns(text, l.from, l.end) <= size.w - x
      BY <2>4
    <3> HIDE DEF x, text
    <3> QED
      BY ONLY <2>6, <3>1, <3>2, <3>3, <3>4, <3>5, <3>6, <3>7, CursorsAre
  <2>7. LineStart(i, top, k) = [row |-> row, col |-> x]
    BY <1>3 DEF LineStart, x
  <2>8. Drawn(i, top, k) = [p \in l.from..l.end - 1 |-> Cell(text[p], at[p])]
    BY <2>7 DEF Drawn, l, lines, text, x
  <2> HIDE DEF at, row
  <2>9. [p \in l.from..l.end - 1 |-> Cell(text[p], at[p])]
          = [p \in l.from..l.end - 1 |->
               [row |-> row, col |-> x + Columns(text, l.from, p)]]
    BY <2>6
  <2> QED
    BY <2>8, <2>9 DEF l, row
<1>10. LinesDrawn(i, top) \subseteq DOMAIN lines
  BY DEF LinesDrawn, lines, text, x
<1>11. Rows(i) \in Nat /\ Rows(i) >= 1 /\ Rows(i) >= Len(lines)
  BY <1>1, <1>8, MaxOfTwo DEF lines, text, x
<1>12. ASSUME NEW r \in RowsOf(i, After)
       PROVE  r \in OwnRows(After, i)
  <2>1. \/ \E c \in 0..x - 1 : r = top + c \div size.w
        \/ \E k \in LinesDrawn(i, top) : \E p \in DOMAIN Drawn(i, top, k) : Drawn(i, top, k)[p].row = r
    BY <1>12 DEF RowsOf, top, x
  <2>2. ASSUME NEW c \in 0..x - 1, r = top + c \div size.w
        PROVE  r \in top..top + Rows(i) - 1
    <3>1. c \in Nat /\ c < size.w /\ size.w \in Nat \ {0}
      BY <1>2, <1>3 DEF x
    <3>2. c \div size.w = 0
      BY <3>1
    <3> QED
      BY <1>1, <1>11, <2>2, <3>2 DEF top
  <2>3. ASSUME NEW k \in LinesDrawn(i, top), NEW p \in DOMAIN Drawn(i, top, k),
               Drawn(i, top, k)[p].row = r
        PROVE  r \in top..top + Rows(i) - 1
    <3>1. k \in DOMAIN lines /\ k \in 1..Len(lines)
      BY <1>8, <1>10
    <3>2. Drawn(i, top, k) =
            [q \in lines[k].from..lines[k].end - 1 |->
               [row |-> top + k - 1, col |-> x + Columns(text, lines[k].from, q)]]
      BY <1>9, <3>1
    <3>3. p \in lines[k].from..lines[k].end - 1
      BY <3>2
    <3>4. Drawn(i, top, k)[p].row = top + k - 1
      BY <3>2, <3>3
    <3> QED
      BY <1>1, <1>8, <1>11, <2>3, <3>1, <3>4 DEF top
  <2> QED
    BY <1>1, <2>1, <2>2, <2>3 DEF top
<1> QED
  BY <1>9, <1>10, <1>12 DEF text, x, lines, top

\* PaneFaithful holds of any messages, scrolled by any number, in any pane.
LEMMA PaneHolds == ViewTypeOK => PaneFaithful
<1> SUFFICES ASSUME ViewTypeOK
    PROVE  PaneFaithful
  OBVIOUS
<1> DEFINE n == Start
           y == After
           drawn == Rendered(y)
           first == IF drawn = {} THEN n + 1 ELSE Min(drawn)
           below(i) == IF i = n THEN size.h - 1 ELSE Top(y, i + 1)
<1>1. /\ n \in Nat /\ size.h \in Nat \ {0}
      /\ \A j \in 1..n + 1 : y[j] \in Int
      /\ y[n + 1] = size.h - 1
      /\ \A j \in 1..n : Rows(j) \in Nat \ {0} /\ y[j] = y[j + 1] - Rows(j)
  BY AfterIs
<1>2. \A i \in drawn :
        /\ i \in 1..n /\ y[i + 1] >= 0 /\ y[i] >= -1
        /\ Top(y, i) = IF y[i] = -1 THEN 0 ELSE y[i]
        /\ Max(OwnRows(y, i)) = IF y[i] = -1 THEN y[i + 1] ELSE y[i + 1] - 1
  <2> SUFFICES ASSUME NEW i \in Rendered(y)
      PROVE  /\ i \in 1..n /\ y[i + 1] >= 0 /\ y[i] >= -1
             /\ Top(y, i) = IF y[i] = -1 THEN 0 ELSE y[i]
             /\ Max(OwnRows(y, i)) = IF y[i] = -1 THEN y[i + 1] ELSE y[i + 1] - 1
    OBVIOUS
  <2>1. /\ i \in 1..n /\ y[i + 1] \in Nat /\ y[i] >= -1
        /\ Top(y, i) = IF y[i] = -1 THEN 0 ELSE y[i]
        /\ Max(OwnRows(y, i)) = IF y[i] = -1 THEN y[i + 1] ELSE y[i + 1] - 1
    BY OwnRowsAre
  <2> HIDE DEF y
  <2> QED
    BY <2>1
<1>3. \A i : i \in drawn <=> i \in 1..n /\ y[i + 1] >= 0 /\ y[i] >= -1
  BY DEF Rendered, Reached
<1> HIDE DEF n, y, drawn
<1>4. ASSUME NEW i \in 1..n
      PROVE  /\ i + 1 \in 1..n + 1 /\ y[i] \in Int /\ y[i + 1] \in Int /\ y[i] < y[i + 1]
             /\ Rows(i) \in Nat \ {0} /\ Rows(i) = y[i + 1] - y[i]
  <2>1. /\ i + 1 \in 1..n + 1 /\ y[i] \in Int /\ y[i + 1] \in Int
        /\ Rows(i) \in Nat \ {0} /\ y[i] = y[i + 1] - Rows(i)
    BY <1>1
  <2> QED
    BY <2>1
<1>5. ASSUME NEW i \in drawn, i < n
      PROVE  i + 1 \in drawn
  <2>1. i \in 1..n /\ i + 1 \in 1..n /\ y[i + 1] >= 0
    BY <1>1, <1>2, <1>5
  <2>2. y[i + 1] \in Int /\ y[(i + 1) + 1] \in Int /\ y[i + 1] < y[(i + 1) + 1]
    BY <1>4, <2>1
  <2>3. y[(i + 1) + 1] >= 0 /\ y[i + 1] >= -1
    BY <2>1, <2>2
  <2> QED
    BY <1>3, <2>1, <2>3
<1>6. /\ first \in 1..n + 1 /\ drawn = first..n
      /\ drawn # {} => first \in drawn
  <2>1. CASE drawn = {}
    BY <1>1, <2>1
  <2>2. CASE drawn # {}
    <3>1. drawn \subseteq Nat
      BY <1>1, <1>2
    <3>2. first \in drawn /\ \A i \in drawn : first <= i
      BY <2>2, <3>1, MinIs
    <3> HIDE DEF first
    <3>3. first \in 1..n /\ drawn \subseteq first..n
      BY <1>1, <1>2, <3>2
    <3> DEFINE T == {j \in first..n : j \notin drawn}
    <3>4. T = {}
      <4> SUFFICES ASSUME T # {}
          PROVE  FALSE
        OBVIOUS
      <4>0. T # {}
        OBVIOUS
      <4>1. T \subseteq Nat
        BY <1>1, <3>3
      <4>2. PICK m \in T : \A j \in T : m <= j
        <5> HIDE DEF T
        <5> QED
          BY <4>0, <4>1, Least
      <4>3. m \in first..n /\ m \notin drawn
        BY <4>2
      <4>4. m # first
        BY <3>2, <4>3
      <4>5. m - 1 \in first..n /\ ~(m <= m - 1) /\ m - 1 < n
        BY <1>1, <3>3, <4>3, <4>4
      <4>6. m - 1 \in drawn
        BY <4>2, <4>5
      <4>7. (m - 1) + 1 = m
        BY <4>3
      <4> QED
        BY <1>5, <4>3, <4>5, <4>6, <4>7
    <3>5. drawn = first..n
      BY <3>3, <3>4
    <3>6. first \in 1..n + 1
      BY <1>1, <3>3
    <3> QED
      BY <3>2, <3>5, <3>6
  <2> QED
    BY <2>1, <2>2
<1>7. ASSUME NEW i \in drawn
      PROVE  Max(OwnRows(y, i)) = below(i) - (IF y[i] = -1 THEN 0 ELSE 1)
  <2>1. Max(OwnRows(y, i)) = IF y[i] = -1 THEN y[i + 1] ELSE y[i + 1] - 1
    BY <1>2
  <2>2. below(i) = y[i + 1]
    <3>1. CASE i = n
      BY <1>1, <3>1
    <3>2. CASE i # n
      <4>1. i \in 1..n /\ y[i + 1] >= 0
        BY <1>2
      <4>2. i < n /\ y[i + 1] \in Int /\ y[i + 1] # -1
        BY <1>1, <1>4, <3>2, <4>1
      <4>3. Top(y, i + 1) = y[i + 1]
        BY <1>2, <1>5, <4>2
      <4> QED
        BY <3>2, <4>3
    <3> QED
      BY <3>1, <3>2
  <2>3. y[i + 1] \in Int
    BY <1>2, <1>4
  <2> HIDE DEF below
  <2> QED
    BY <2>1, <2>2, <2>3
<1>9. ASSUME NEW i \in drawn, y[i] = -1
      PROVE  i = first
  <2> SUFFICES ASSUME i # first
      PROVE  FALSE
    OBVIOUS
  <2> HIDE DEF first
  <2>1. i - 1 \in drawn /\ (i - 1) + 1 = i
    BY <1>1, <1>6
  <2> QED
    BY <1>2, <1>9, <2>1
<1>10. ASSUME first > 1
       PROVE  Rows(first - 1) > y[first] + 1
  <2> HIDE DEF first
  <2> DEFINE j == first - 1
  <2>1. j \in 1..n /\ j + 1 = first
    BY <1>1, <1>6, <1>10
  <2>2. j \notin drawn
    BY <1>6, <2>1
  <2>3. /\ y[j] \in Int /\ y[first] \in Int
        /\ Rows(j) \in Nat \ {0} /\ Rows(j) = y[first] - y[j]
    BY <1>4, <2>1
  <2>4. ~(y[first] >= 0 /\ y[j] >= -1)
    BY <1>3, <2>1, <2>2
  <2>5. y[first] >= -1
    <3>1. CASE drawn = {}
      <4>1. first = n + 1 /\ y[first] = size.h - 1
        BY <1>1, <3>1 DEF first
      <4> QED
        BY <1>1, <4>1
    <3>2. CASE drawn # {}
      BY <1>2, <1>6, <3>2
    <3> QED
      BY <3>1, <3>2
  <2> HIDE DEF j
  <2>6. Rows(j) > y[first] + 1
    BY <2>3, <2>4, <2>5
  <2> QED
    BY <2>6 DEF j
<1>11. drawn = first..n
  BY <1>6
<1>12. ASSUME ~Hung, NEW i \in drawn, Plain(i)
       PROVE  /\ RowsOf(i, y) \subseteq OwnRows(y, i)
              /\ \A k \in LinesDrawn(i, Top(y, i)) :
                  LET l == Wrap(msgs[i].text, PrefixOf(i), size.w)[k]
                  IN  Drawn(i, Top(y, i), k) =
                        [p \in l.from..l.end - 1 |->
                           [row |-> Top(y, i) + k - 1,
                            col |-> PrefixOf(i) + Columns(msgs[i].text, l.from, p)]]
  BY <1>12, PlainDrawn DEF y, drawn
<1> QED
  BY <1>7, <1>9, <1>10, <1>11, <1>12 DEF PaneFaithful, Rows, n, y, drawn
-----------------------------------------------------------------------------
(* The pane's invariant.                                                   *)

ViewInv == ViewTypeOK /\ Len(msgs) > 0

\* Messages, and a text from the user or a reply, have their types.
LEMMA TextsAre ==
    /\ \A u \in BOOLEAN, t \in LoadedTexts \cup NewTexts :
         Message(u, t) \in [is_user : BOOLEAN, text : Seq(Character)]
    /\ Placeholder \in [is_user : BOOLEAN, text : Seq(Character)]
<1>1. \A t \in LoadedTexts \cup NewTexts : t \in Seq(Character)
  BY ViewAssumption
<1>2. <<Narrow, Narrow, Narrow>> \in Seq(Character)
  <2>1. Narrow \in Character
    BY DEF Character
  <2> QED
    BY <2>1
<1> QED
  BY <1>1, <1>2 DEF Message, Placeholder

LEMMA ViewStart == ViewInit => ViewInv
<1> SUFFICES ASSUME ViewInit
    PROVE  ViewInv
  OBVIOUS
<1>1. PICK u \in BOOLEAN, t \in LoadedTexts : msgs = <<Message(u, t)>>
  BY DEF ViewInit
<1>2. Message(u, t) \in [is_user : BOOLEAN, text : Seq(Character)]
  BY TextsAre
<1>3. msgs \in Seq([is_user : BOOLEAN, text : Seq(Character)]) /\ Len(msgs) = 1
  BY <1>1, <1>2
<1>4. scroll = 0
  BY DEF ViewInit
<1>5. waiting \in BOOLEAN
  BY DEF ViewInit
<1>6. size \in PaneSizes
  BY DEF ViewInit
<1>7. scroll \in 0..Len(msgs) /\ Len(msgs) > 0
  BY ONLY <1>3, <1>4
<1> QED
  BY ONLY <1>3, <1>5, <1>6, <1>7 DEF ViewInv, ViewTypeOK

LEMMA ViewStep == ViewInv /\ [ViewNext]_viewVars => ViewInv'
<1> DEFINE M == [is_user : BOOLEAN, text : Seq(Character)]
<1> SUFFICES ASSUME ViewInv, [ViewNext]_viewVars
    PROVE  ViewInv'
  OBVIOUS
<1>1. /\ msgs \in Seq(M) /\ Len(msgs) \in Nat /\ Len(msgs) > 0
      /\ scroll \in 0..Len(msgs) /\ waiting \in BOOLEAN /\ size \in PaneSizes
  BY LenProperties DEF ViewInv, ViewTypeOK
<1>2. ASSUME NEW t \in NewTexts, Submit(t)
      PROVE  ViewInv'
  <2> DEFINE a == Message(TRUE, t)
  <2>1. a \in M /\ Placeholder \in M
    BY TextsAre
  <2> HIDE DEF a, M
  <2>2. <<a, Placeholder>> \in Seq(M) /\ Len(<<a, Placeholder>>) = 2
    BY <2>1
  <2>3. msgs' = msgs \o <<a, Placeholder>>
    BY <1>2 DEF Submit, a
  <2>4. msgs' \in Seq(M) /\ Len(msgs') = Len(msgs) + 2
    BY <1>1, <2>2, <2>3, ConcatProperties
  <2>5. scroll' \in 0..Len(msgs') /\ waiting' \in BOOLEAN /\ size' \in PaneSizes
    BY <1>1, <1>2, <2>4 DEF Submit
  <2> QED
    BY <1>1, <2>4, <2>5 DEF ViewInv, ViewTypeOK, M
<1>3. ASSUME NEW t \in NewTexts, NEW final \in BOOLEAN, Answer(t, final)
      PROVE  ViewInv'
  <2> DEFINE a == Message(FALSE, t)
             front == SubSeq(msgs, 1, Len(msgs) - 1)
  <2>1. a \in M
    BY TextsAre
  <2> HIDE DEF a, M
  <2>2. front \in Seq(M) /\ Len(front) = Len(msgs) - 1
    <3>1. Len(msgs) - 1 \in 0..Len(msgs)
      BY <1>1
    <3> QED
      BY <1>1, <3>1, CutIs
  <2>3. msgs' = Append(front, a)
    BY <1>3 DEF Answer, Front, a
  <2> HIDE DEF front
  <2>4. msgs' \in Seq(M) /\ Len(msgs') = Len(msgs)
    <3>1. msgs' \in Seq(M) /\ Len(msgs') = Len(front) + 1
      BY ONLY <2>1, <2>2, <2>3, AppendProperties
    <3> QED
      BY <1>1, <2>2, <3>1
  <2>5. scroll' \in {0, scroll} /\ waiting' \in BOOLEAN /\ size' \in PaneSizes
    <3>1. scroll' = (IF final THEN 0 ELSE scroll) /\ waiting' = FALSE /\ size' = size
      BY <1>3 DEF Answer
    <3> QED
      BY <1>1, <3>1
  <2>6. scroll' \in 0..Len(msgs')
    BY <1>1, <2>4, <2>5
  <2> QED
    BY <1>1, <2>4, <2>5, <2>6 DEF ViewInv, ViewTypeOK, M
<1>4. ASSUME NEW delta \in {-3, 3}, chat_scroll(delta)
      PROVE  ViewInv'
  <2>1. UNCHANGED <<msgs, waiting, size>> /\ scroll' \in 0..Len(msgs)
    BY <1>1, <1>4 DEF chat_scroll
  <2> QED
    BY <1>1, <2>1 DEF ViewInv, ViewTypeOK
<1>5. CASE handle_resize
  BY <1>1, <1>5 DEF handle_resize, ViewInv, ViewTypeOK
<1>6. CASE UNCHANGED viewVars
  BY <1>1, <1>6 DEF viewVars, ViewInv, ViewTypeOK
<1> QED
  BY <1>2, <1>3, <1>4, <1>5, <1>6 DEF ViewNext

LEMMA AlwaysViewInv == ViewSpec => []ViewInv
BY ViewStart, ViewStep, PTL DEF ViewSpec

\* The messages, the scroll position and the size of the pane keep their types;
\* chat_scroll stays within the messages.
THEOREM ViewTypeCorrect == ViewSpec => []ViewTypeOK
<1>1. ViewInv => ViewTypeOK
  BY DEF ViewInv
<1> QED
  BY <1>1, AlwaysViewInv, PTL

\* Whatever a message says and however narrow the pane, wrap_line_end breaks it
\* only where it must, loses nothing but the blanks it breaks at, and stops
\* only at a wide character that has a single column.
THEOREM TextBroken == ViewSpec => []WrapFaithful
<1>1. ViewInv => WrapFaithful
  BY WrapHolds DEF ViewInv
<1> QED
  BY <1>1, AlwaysViewInv, PTL

\* However messages come, the pane is scrolled and the terminal is resized,
\* chat_render gives the newest messages that are not scrolled out rows of
\* their own, one below the other, as long as there is room, and draws a
\* message on its rows and each line on its row, if the pane is wider than the
\* prefix and the text has no tab; DrawnAsCounted says what happens otherwise.
THEOREM PaneFilled == ViewSpec => []PaneFaithful
<1>1. ViewInv => PaneFaithful
  BY PaneHolds DEF ViewInv
<1> QED
  BY <1>1, AlwaysViewInv, PTL

-----------------------------------------------------------------------------
(* The popup.  SelInView and the types hold each other up: the selection   *)
(* is visible because the scroll position followed it, and the scroll      *)
(* position stays above 0 because the window never ends below the last     *)
(* option.                                                                 *)

OverlayInv == OverlayTypeOK /\ SelInView

\* The popup is open, and its fields have their types.
Shown(o) ==
    /\ o \in [open : BOOLEAN, count : 0..MaxOptions, vis : 1..MaxOptions,
              sel : 0..MaxOptions - 1, scroll : 0..MaxOptions - 1,
              result : -1..MaxOptions - 1]
    /\ o.open

\* KeepInView, given a window that ends within the options and a selection
\* anywhere in them, moves the window so that it shows the selection and
\* still ends within the options (the while loop's first lines, overlay.c).
LEMMA KeepInViewShows ==
    ASSUME NEW o, Shown(o), o.sel < o.count, o.scroll + o.vis <= o.count
    PROVE  LET n == KeepInView(o)
           IN  /\ Shown(n)
               /\ n.scroll <= n.sel /\ n.sel < n.scroll + n.vis
               /\ n.scroll + n.vis <= n.count
<1> DEFINE top == IF o.sel < o.scroll THEN o.sel
                  ELSE IF o.sel >= o.scroll + o.vis THEN o.sel - o.vis + 1 ELSE o.scroll
           n == KeepInView(o)
<1>1. MaxOptions \in Nat \ {0}
  BY OverlayAssumption
<1>2. /\ o.count \in 0..MaxOptions /\ o.vis \in 1..MaxOptions
      /\ o.sel \in 0..MaxOptions - 1 /\ o.scroll \in 0..MaxOptions - 1
  BY DEF Shown
<1>3. /\ top \in 0..MaxOptions - 1
      /\ top <= o.sel /\ o.sel < top + o.vis /\ top + o.vis <= o.count
  BY <1>1, <1>2
<1>4. n = [o EXCEPT !.scroll = top]
  BY DEF Shown, KeepInView
<1>5. /\ Shown(n)
      /\ n.scroll = top /\ n.sel = o.sel /\ n.vis = o.vis /\ n.count = o.count
  BY <1>3, <1>4 DEF Shown
<1>6. QED
  BY <1>3, <1>5

\* Every popup has its types and a visible selection: overlay_pick opens one
\* at the top of the list, and each key keeps it so.
LEMMA OverlayStep == ASSUME OverlayInv, [OverlayNext]_ov PROVE OverlayInv'
<1>1. MaxOptions \in Nat \ {0} /\ ScreenHeights \subseteq Nat
  BY OverlayAssumption
<1>2. CASE overlay_pick
  <2>1. PICK count \in 1..MaxOptions, current \in -1..MaxOptions, lines \in ScreenHeights :
          LET room == IF count < lines - 8 THEN count ELSE lines - 8
          IN  ov' = KeepInView([open |-> TRUE, count |-> count,
                                vis |-> IF room < 1 THEN 1 ELSE room,
                                sel |-> IF current < 0 \/ current >= count THEN 0 ELSE current,
                                scroll |-> 0, result |-> -1])
    BY <1>2 DEF overlay_pick
  <2> DEFINE room == IF count < lines - 8 THEN count ELSE lines - 8
             vis == IF room < 1 THEN 1 ELSE room
             sel == IF current < 0 \/ current >= count THEN 0 ELSE current
             o == [open |-> TRUE, count |-> count, vis |-> vis, sel |-> sel,
                   scroll |-> 0, result |-> -1]
  <2>2. lines \in Nat /\ vis \in 1..count /\ sel \in 0..count - 1
    BY <1>1
  <2>3. Shown(o) /\ o.sel < o.count /\ o.scroll + o.vis <= o.count
    BY <1>1, <2>2 DEF Shown
  <2>4. ov' = KeepInView(o)
    BY <2>1
  <2>5. QED
    BY <2>3, <2>4, KeepInViewShows DEF OverlayInv, OverlayTypeOK, SelInView, Shown
<1>3. ASSUME NEW delta \in {-1, 1, -ov.vis, ov.vis}, MoveBy(delta) PROVE OverlayInv'
  <2> DEFINE to == ov.sel + delta
             sel == IF to < 0 THEN 0 ELSE IF to >= ov.count THEN ov.count - 1 ELSE to
             o == [ov EXCEPT !.sel = sel]
  <2>1. Shown(ov) /\ ov.scroll + ov.vis <= ov.count
    BY <1>3 DEF OverlayInv, OverlayTypeOK, SelInView, Shown, MoveBy
  <2>2. /\ ov.count \in 1..MaxOptions /\ ov.vis \in 1..MaxOptions
        /\ ov.sel \in 0..MaxOptions - 1 /\ ov.scroll \in Nat
    BY <1>1, <2>1 DEF Shown
  <2>3. sel \in 0..ov.count - 1
    BY <2>2
  <2>4. Shown(o) /\ o.sel < o.count /\ o.scroll + o.vis <= o.count
    BY <1>1, <2>1, <2>2, <2>3 DEF Shown
  <2>5. ov' = KeepInView(o)
    BY <1>3 DEF MoveBy
  <2>6. QED
    BY <2>4, <2>5, KeepInViewShows DEF OverlayInv, OverlayTypeOK, SelInView, Shown
<1>4. CASE Select
  BY <1>1, <1>4 DEF Select, Closed, OverlayInv, OverlayTypeOK, SelInView
<1>5. CASE Cancel
  BY <1>1, <1>5 DEF Cancel, Closed, OverlayInv, OverlayTypeOK, SelInView
<1>6. CASE UNCHANGED ov
  BY <1>6 DEF OverlayInv, OverlayTypeOK, SelInView
<1>7. QED
  BY <1>2, <1>3, <1>4, <1>5, <1>6 DEF OverlayNext

\* Types and a visible selection hold in every state of the popup.
LEMMA AlwaysOverlayInv == OverlaySpec => []OverlayInv
<1>1. OverlayInit => OverlayInv
  BY OverlayAssumption DEF OverlayInit, Closed, OverlayInv, OverlayTypeOK, SelInView
<1>2. OverlayInv /\ [OverlayNext]_ov => OverlayInv'
  BY OverlayStep
<1>3. QED
  BY <1>1, <1>2, PTL DEF OverlaySpec

\* The popup's variables keep their types: the selection, the scroll position
\* and what overlay_pick returns are options of the list.
THEOREM OverlayTypeCorrect == OverlaySpec => []OverlayTypeOK
<1>1. OverlayInv => OverlayTypeOK
  BY DEF OverlayInv
<1>2. QED
  BY <1>1, AlwaysOverlayInv, PTL

\* Whatever keys come and however small the screen, the selected option is
\* one of those overlay_pick draws, and no drawn row is beyond the list.
THEOREM SelectionVisible == OverlaySpec => []SelInView
<1>1. OverlayInv => SelInView
  BY DEF OverlayInv
<1>2. QED
  BY <1>1, AlwaysOverlayInv, PTL

-----------------------------------------------------------------------------
(* What TLC checks is all of it: a behaviour of the instance is one of     *)
(* each component, so what is proved of the components holds of it.        *)

\* The instance's behaviours are behaviours of its four components.
LEMMA TermParts == TermSpec => WireSpec /\ ViewSpec /\ PromptSpec /\ OverlaySpec
<1>1. TermInit => WireInit /\ ViewInit /\ PromptInit /\ OverlayInit
  BY DEF TermInit
<1>2. [TermNext]_<<part, answer, wireVars, viewVars, promptVars, ov>> =>
        /\ [WireNext]_wireVars /\ [ViewNext]_viewVars
        /\ [PromptNext]_promptVars /\ [OverlayNext]_ov
  BY DEF TermNext
<1> QED
  BY <1>1, <1>2, PTL DEF TermSpec, WireSpec, ViewSpec, PromptSpec, OverlaySpec

\* All the state between the socket and the screen keeps its types.
THEOREM TermTypeCorrect == TermSpec => []TermTypeOK
<1>1. WireTypeOK /\ ViewTypeOK /\ PromptTypeOK /\ OverlayTypeOK => TermTypeOK
  BY DEF TermTypeOK
<1> QED
  BY <1>1, TermParts, WireTypeCorrect, ViewTypeCorrect, PromptTypeCorrect,
     OverlayTypeCorrect, PTL

\* detect_choices reads every reply of the instance as it should, being right
\* about all replies.
THEOREM TermListRead == TermSpec => []ListFaithful
<1> DEFINE Asked == answer \in Seq(Line)
<1>1. LinesOfReply \subseteq Line
  <2>1. ASSUME NEW style \in {"digit", "letter"}, NEW k \in Nat,
               NEW gap \in BOOLEAN, NEW text \in BOOLEAN
        PROVE  Bullet(style, k, gap, text) \in Line
    BY DEF Bullet, Line
  <2>2. BlankLine \in Line /\ Prose \in Line
    BY DEF BlankLine, Prose, Line
  <2>3. SUFFICES ASSUME NEW b \in LinesOfReply
        PROVE  b \in Line
    OBVIOUS
  <2>4. CASE b \in {BlankLine, Prose}
    BY <2>2, <2>4
  <2>5. CASE b = Bullet("digit", 3, TRUE, TRUE)
    BY <2>1, <2>5
  <2>6. CASE b \in {Bullet("letter", 1, TRUE, TRUE), Bullet("letter", 2, TRUE, TRUE)}
    BY <2>1, <2>6
  <2> DEFINE Numbers == {Bullet("digit", k, gap, text) :
                            k \in {1, 2}, gap \in BOOLEAN, text \in BOOLEAN}
  <2>7. CASE b \in Numbers
    <3>1. PICK k \in {1, 2}, gap \in BOOLEAN, text \in BOOLEAN :
            b = Bullet("digit", k, gap, text)
      BY <2>7
    <3>2. k \in Nat
      OBVIOUS
    <3> QED
      BY <2>1, <3>1, <3>2
  <2>8. LinesOfReply =
            {BlankLine, Prose, Bullet("digit", 3, TRUE, TRUE),
             Bullet("letter", 1, TRUE, TRUE), Bullet("letter", 2, TRUE, TRUE)} \cup Numbers
    BY DEF LinesOfReply
  <2> HIDE DEF Numbers
  <2> QED
    BY <2>4, <2>5, <2>6, <2>7, <2>8
<1>2. TermInit => Asked
  <2> SUFFICES ASSUME TermInit
      PROVE  Asked
    OBVIOUS
  <2>1. answer \in UNION {[1..n -> LinesOfReply] : n \in IF part = "list" THEN 0..4 ELSE {0}}
    BY DEF TermInit
  <2>2. PICK n \in IF part = "list" THEN 0..4 ELSE {0} : answer \in [1..n -> LinesOfReply]
    BY <2>1
  <2>3. n \in Nat
    BY <2>2
  <2>4. answer \in [1..n -> Line]
    BY <1>1, <2>2
  <2> QED
    BY <2>3, <2>4, SeqDef
<1>3. Asked /\ [TermNext]_<<part, answer, wireVars, viewVars, promptVars, ov>> => Asked'
  BY DEF TermNext
<1>4. Asked => ListFaithful
  BY ListRead DEF ListFaithful
<1> QED
  BY <1>2, <1>3, <1>4, PTL DEF TermSpec
=============================================================================
