---------------------------- MODULE ChoiceList ----------------------------
(***************************************************************************)
(* The numbered or lettered list of choices the TUI looks for in a reply   *)
(* (detect_choices in src/ui/main.c).                                      *)
(*                                                                         *)
(* A reply is a sequence of lines.  A line is blank, prose, or a bullet:   *)
(* "N. text", "N. " without text, or "N.text", which only ends the choice  *)
(* before it.  The letters A, B, ... are numbered 1, 2, ...  A choice is   *)
(* the range of its lines.                                                 *)
(***************************************************************************)
EXTENDS Naturals, Sequences, FiniteSets, FiniteSetsExt

CONSTANT MaxChoices    \* MAX_CHOICES (8 in the code)

ASSUME ChoicesAssumption == MaxChoices \in Nat \ {0, 1}

Line == [style : {"blank", "prose", "digit", "letter"}, num : Nat,
         gap : BOOLEAN, text : BOOLEAN]
BlankLine == [style |-> "blank", num |-> 0, gap |-> FALSE, text |-> FALSE]
Prose == [style |-> "prose", num |-> 0, gap |-> FALSE, text |-> TRUE]
Bullet(style, num, gap, text) ==
    [style |-> style, num |-> num, gap |-> gap, text |-> text]
Styles == <<"digit", "letter">>

\* The line starts choice k, or at least ends choice k - 1.
IsItem(line, style, k) == line.style = style /\ line.num = k /\ line.gap
IsBullet(line, style, k) == line.style = style /\ line.num = k

\* The last line of the choice k that starts on line i: it goes on up to a
\* blank line, the next bullet or the end.  The faulty variant looks for its
\* own bullet again.
ItemEndOwn(reply, i, style, k) ==
    Min({j \in i..Len(reply) : j = Len(reply) \/ reply[j + 1].style = "blank"
                                              \/ IsBullet(reply[j + 1], style, k)})

ItemEnd(reply, i, style, k) ==
    Min({j \in i..Len(reply) : j = Len(reply) \/ reply[j + 1].style = "blank"
                                              \/ IsBullet(reply[j + 1], style, k + 1)})

\* The lines from i on that start choice k; without any text they do not.
Starts(reply, i, style, k) ==
    {f \in i..Len(reply) : /\ IsItem(reply[f], style, k)
                           /\ reply[f].text \/ ItemEnd(reply, f, style, k) > f}

\* The list so far, with the first choice below it that goes on from it.
WithNext(reply, style, list) ==
    LET k == Len(list) + 1
        starts == Starts(reply, IF k = 1 THEN 1 ELSE list[k - 1].to + 1, style, k)
    IN  IF starts = {} THEN list
        ELSE Append(list, [from |-> Min(starts), to |-> ItemEnd(reply, Min(starts), style, k)])

\* One pass.
ChoicesOf(reply, style) ==
    LET Upto[k \in 0..MaxChoices] ==
            IF k = 0 THEN <<>> ELSE WithNext(reply, style, Upto[k - 1])
    IN  Upto[MaxChoices]

\* Numbers first, then letters; one choice alone is none.
detect_choices(reply) ==
    LET lists == {s \in DOMAIN Styles : Len(ChoicesOf(reply, Styles[s])) >= 2}
    IN  IF lists = {} THEN <<>> ELSE ChoicesOf(reply, Styles[Min(lists)])

-----------------------------------------------------------------------------
\* Lines that can be the k-th choice whatever comes after them.
Candidates(reply, style, k) ==
    {i \in DOMAIN reply : IsItem(reply[i], style, k) /\ reply[i].text}

\* There are choices as soon as a bullet 2 follows a bullet 1 of its style;
\* they are apart, in order and of one style; each begins with its own bullet,
\* holds neither a blank line nor the next bullet, and has some text; and no
\* choice that goes on from the last is left out (main.c:607).
ReadsTheList(reply) ==
    LET list == detect_choices(reply)
        n == Len(list)
        Pair(style) == \E i \in Candidates(reply, style, 1) :
                        \E j \in Candidates(reply, style, 2) : i < j
        style == reply[list[1].from].style
    IN  /\ Len(list) <= MaxChoices
        /\ list = <<>> => \A s \in DOMAIN Styles : ~Pair(Styles[s])
        /\ list # <<>> =>
            /\ n >= 2 /\ (Pair("digit") => style = "digit")
            /\ \A k \in 1..n :
                /\ IsItem(reply[list[k].from], style, k)
                /\ list[k].from < list[k].to \/ reply[list[k].from].text
                /\ \A i \in list[k].from + 1..list[k].to :
                    reply[i].style # "blank" /\ ~IsBullet(reply[i], style, k + 1)
                /\ k > 1 => list[k - 1].to < list[k].from
            /\ n < MaxChoices =>
                \A i \in Candidates(reply, style, n + 1) : i < list[n].to
=============================================================================
