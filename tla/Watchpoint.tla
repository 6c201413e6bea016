----------------------------- MODULE Watchpoint -----------------------------
(***************************************************************************)
(* The pool of watchpoints, src/monitor/debug/watchpoint.c, with the two   *)
(* commands of ui.c that change it.  The entries of the pool are linked    *)
(* into a list of those in use (head) and a list of the others (free_);    *)
(* an entry is known by its NO, which is its index.                        *)
(*                                                                         *)
(* A definition Name_suffix states the definition Name that follows it the *)
(* way a plausible mistake would; no action uses it.                       *)
(***************************************************************************)
EXTENDS Integers, FiniteSets, Sequences, SequencesExt

CONSTANTS
    NR_WP,      \* entries of the pool, 32 in the code
    Limit,      \* new_wp gives out this many, 24 in the code
    EXPR_LEN,   \* the characters an entry has room for, 64 in the code
    Chars,      \* what the text of an expression is made of
    Texts,      \* the expressions a user types
    Values,     \* the values of expressions
    None        \* NULL

Numbers == 0..(NR_WP - 1)

\* With Limit = NR_WP, free_wp would meet an empty free list.
ASSUME WatchAssumption ==
    /\ NR_WP \in Nat /\ Limit \in Nat /\ Limit < NR_WP
    /\ EXPR_LEN \in Nat
    /\ Texts \subseteq Seq(Chars) /\ <<>> \notin Texts
    /\ None \notin Numbers
    /\ Values # {}

VARIABLES
    head, free_,    \* the two lists
    next,           \* the links
    count_used,
    content,        \* the text of an entry up to its first NUL
    asked,          \* history: the text the user gave for an entry
    latter_value,   \* former_value only lives within update_all_w
    halted          \* "assert" or "fault" once the program has stopped there,
                    \* "overrun" once it wrote past an entry's text

links == <<head, free_, next, count_used>>
watchVars == <<links, content, asked, latter_value, halted>>

-----------------------------------------------------------------------------
(* The lists as sequences: what a walk along the links sees.               *)

Lists == {s \in UNION {[1..k -> Numbers] : k \in 0..NR_WP} : IsInjective(s)}

IsList(s, h, nx) ==
    /\ h = IF s = <<>> THEN None ELSE s[1]
    /\ \A i \in 1..Len(s) : nx[s[i]] = IF i = Len(s) THEN None ELSE s[i + 1]

ListsFrom(h, nx) == {s \in Lists : IsList(s, h, nx)}
ListFrom(h, nx) == CHOOSE s \in ListsFrom(h, nx) : TRUE

Used == ListFrom(head, next)
Unused == ListFrom(free_, next)

\* init_wp_pool
WatchInit ==
    /\ head = None
    /\ free_ = 0
    /\ next = [n \in Numbers |-> IF n = NR_WP - 1 THEN None ELSE n + 1]
    /\ count_used = 0
    /\ content = [n \in Numbers |-> <<>>]
    /\ asked = [n \in Numbers |-> <<>>]
    /\ latter_value = [n \in Numbers |-> CHOOSE v \in Values : TRUE]
    /\ halted = "no"

-----------------------------------------------------------------------------
(* new_wp, and the rest of cmd_w. *)

\* The new entry is linked behind the last one in use.
LinkNew(w) ==
    [n \in Numbers |->
        IF n = w THEN None
        ELSE IF count_used # 0 /\ n = Last(Used) THEN w
        ELSE next[n]]

HasRoom_all == count_used < NR_WP
HasRoom == count_used < Limit

\* memcpy(content, arg, strlen(arg)): without the NUL, so that the end of a
\* longer text the entry held before stays behind the new one.
Copied(n, text) == text \o SubSeq(content[n], Len(text) + 1, Len(content[n]))

\* A text whose NUL does not fit runs into the values, and one that is longer
\* into the number and the link of the next entry.  Nothing is said of what
\* the debugger does from there on.
Overruns(text) == Len(text) >= EXPR_LEN

CmdW(text, v) ==
    IF HasRoom /\ ~Overruns(text)
    THEN LET w == free_ IN
         /\ head' = IF count_used = 0 THEN w ELSE head
         /\ free_' = next[w]
         /\ next' = LinkNew(w)
         /\ count_used' = count_used + 1
         /\ content' = [content EXCEPT ![w] = Copied(w, text)]
         /\ asked' = [asked EXCEPT ![w] = text]
         /\ latter_value' = [latter_value EXCEPT ![w] = v]
         /\ UNCHANGED halted
    ELSE /\ halted' = IF HasRoom THEN "overrun" ELSE "assert"
         /\ UNCHANGED <<links, content, asked, latter_value>>

-----------------------------------------------------------------------------
(* delete_w and free_wp. *)

\* The entry before w in use.
Before(w) == CHOOSE p \in Range(Used) : next[p] = w

\* The links once w is out of the list in use.
Unlinked(w) ==
    IF head = w THEN next ELSE [next EXCEPT ![Before(w)] = next[w]]

\* The entry behind which w goes: the walk never looks at the first one.
Place(w) ==
    LET f == Unused IN
    f[CHOOSE i \in 1..Len(f) :
        /\ i = Len(f) \/ f[i + 1] >= w
        /\ \A j \in 1..(i - 1) : f[j + 1] < w]

GoesFirst(w) == next[free_] = None /\ free_ > w

LinkFree_dropsTail(w) ==
    [Unlinked(w) EXCEPT ![Place(w)] = w, ![w] = None]

LinkFree(w) ==
    IF GoesFirst(w)
    THEN [Unlinked(w) EXCEPT ![w] = free_]
    ELSE [Unlinked(w) EXCEPT ![w] = next[Place(w)], ![Place(w)] = w]

FreeWp(w) ==
    IF free_ = None
    THEN /\ halted' = "fault"
         /\ UNCHANGED links
    ELSE /\ head' = IF head = w THEN next[w] ELSE head
         /\ free_' = IF GoesFirst(w) THEN w ELSE free_
         /\ next' = LinkFree(w)
         /\ count_used' = count_used - 1
         /\ UNCHANGED halted

CmdD(num) ==
    /\ IF num \in Range(Used) THEN FreeWp(num) ELSE UNCHANGED <<links, halted>>
    /\ UNCHANGED <<content, asked, latter_value>>

-----------------------------------------------------------------------------
(* update_all_w; its assert(0) is out of reach, as expr never reports a    *)
(* failure.                                                                *)

UpdateAll(val) ==
    /\ latter_value' = [n \in Numbers |-> IF n \in Range(Used)
                            THEN val[n] ELSE latter_value[n]]
    /\ UNCHANGED <<links, content, asked, halted>>

\* Its result.
Whether(val) == \E n \in Range(Used) : val[n] # latter_value[n]

WatchNext ==
    /\ halted = "no"
    /\ \/ \E text \in Texts, v \in Values : CmdW(text, v)
       \/ \E num \in Numbers : CmdD(num)
       \/ \E val \in [Numbers -> Values] : UpdateAll(val)

WatchSpec == WatchInit /\ [][WatchNext]_watchVars

-----------------------------------------------------------------------------

\* The two lists are disjoint, hold every entry once, count_used is the length
\* of the first, and no walk of new_wp or free_wp meets a NULL it does not
\* expect, however the commands that take and give back entries alternate, as
\* long as no text is longer than an entry has room for.
PoolInv ==
    /\ next \in [Numbers -> Numbers \cup {None}]
    /\ content \in [Numbers -> Seq(Chars)]
    /\ asked \in [Numbers -> Seq(Chars)]
    /\ latter_value \in [Numbers -> Values]
    /\ halted \in {"no", "assert", "overrun"}
    /\ \E u \in ListsFrom(head, next), f \in ListsFrom(free_, next) :
         /\ Range(u) \cap Range(f) = {}
         /\ Range(u) \cup Range(f) = Numbers
         /\ count_used = Len(u) /\ Len(u) <= Limit /\ f # <<>>

WS == INSTANCE WatchSet WITH used <- Range(Used)

\* The pool implements the set of numbers: `w' takes a number nobody uses, `d'
\* gives back the one it names, and updates leave the numbers alone.
ImplementsWatchSet == WS!AbsSpec
=============================================================================
