------------------------------- MODULE Ladder -------------------------------
(***************************************************************************)
(* The price ladder of one side of the matcher's order book                *)
(* (crates/cerdic-tee-matcher/src/book.rs, struct Ladder) together with    *)
(* its two-tier occupancy bitmap (struct Occupancy).                       *)
(*                                                                         *)
(* A ladder is a dense array of levels whose first cell stands for         *)
(* baseTick.  It grows at either end and never shrinks; growing at the low *)
(* end re-bases it, which moves every index.  The bitmap has one bit per   *)
(* index, grouped in words of Width bits, and a summary with one bit per   *)
(* word.  A word is modelled as the set of its bit positions, so that      *)
(* masking with (!0 << b) keeps the positions >= b, trailing_zeros is the  *)
(* minimum and leading_zeros gives the maximum.                            *)
(*                                                                         *)
(* The order book uses the ladder through Occupy (push_back: ensure, then  *)
(* mark_occupied when the level was empty), Vacate (unlink: mark_empty)    *)
(* and next_worse_level; the module MatchingBook takes from here only the  *)
(* set of occupied ticks.                                                  *)
(***************************************************************************)
EXTENDS Integers, Sequences, FiniteSetsExt

CONSTANTS
  Width,      \* bits in one bitmap word (64 in the code)
  MaxTick     \* bound: ticks quoted in the model are 0..MaxTick

ASSUME LadderAssumption == Width \in Nat \ {0} /\ MaxTick \in Nat

Ticks == 0..MaxTick
Bits  == 0..(Width - 1)
None  == -1    \* Option::None for an index

VARIABLES
  baseTick,   \* tick of index 0
  levelCount, \* levels.len()
  words,      \* sequence of words; word i of the code is words[i + 1]
  summary,    \* sequence of words over the words
  occupied    \* history: the ticks whose level holds an order

ladderVars == <<baseTick, levelCount, words, summary, occupied>>

-----------------------------------------------------------------------------
(* Occupancy: operations on a bitmap bm = [words, summary].                *)

DivCeil(a, b) == (a + b - 1) \div b

Word(seq, i) == seq[i + 1]

\* Vec::resize(n, 0) of a vector that only ever grows.
Resize(seq, n) ==
  [i \in 1..(IF n > Len(seq) THEN n ELSE Len(seq)) |-> IF i <= Len(seq) THEN seq[i] ELSE {}]

ensure_len(bm, count) ==
  LET wordCount == DivCeil(count, Width) IN
  IF wordCount > Len(bm.words)
  THEN [words   |-> Resize(bm.words, wordCount),
        summary |-> Resize(bm.summary, DivCeil(wordCount, Width))]
  ELSE bm

set(bm0, idx) ==
  LET bm == ensure_len(bm0, idx + 1)
      w  == idx \div Width
  IN [words   |-> [bm.words EXCEPT ![w + 1] = @ \cup {idx % Width}],
      summary |-> [bm.summary EXCEPT ![(w \div Width) + 1] = @ \cup {w % Width}]]

clear(bm, idx) ==
  LET w    == idx \div Width
      left == Word(bm.words, w) \ {idx % Width}
  IN IF w >= Len(bm.words) THEN bm
     ELSE [words   |-> [bm.words EXCEPT ![w + 1] = left],
           summary |-> IF left = {}
                       THEN [bm.summary EXCEPT ![(w \div Width) + 1] = @ \ {w % Width}]
                       ELSE bm.summary]

is_set(bm, idx) ==
  LET w == idx \div Width IN w < Len(bm.words) /\ (idx % Width) \in Word(bm.words, w)

\* The indices whose bit is set, read bit by bit.
SetBits(bm) == {i \in 0..(Len(bm.words) * Width - 1) : is_set(bm, i)}

\* Faulty variant of shift_up: the bits stay where they were.
shift_up_in_place(bm, shift, count) == ensure_len(bm, count)

\* A fresh bitmap long enough for count levels, with every old bit moved up
\* by shift, one index after the other.
shift_up(bm, shift, count) ==
  LET shifted[i \in 0..(Len(bm.words) * Width)] ==
        IF i = 0 THEN ensure_len([words |-> <<>>, summary |-> <<>>], count)
        ELSE IF is_set(bm, i - 1) THEN set(shifted[i - 1], i - 1 + shift)
        ELSE shifted[i - 1]
  IN shifted[Len(bm.words) * Width]

\* The upward scan of the summary for a nonzero word strictly after word
\* from0; None when it runs out.
SummaryNext(bm, from0) ==
  LET scan[sw \in 0..Len(bm.summary)] ==
        IF sw = Len(bm.summary) THEN None
        ELSE LET from == IF sw = from0 \div Width THEN (from0 % Width) + 1 ELSE 0
                 hit  == {b \in Word(bm.summary, sw) : b >= from}
             IN IF hit # {} THEN sw * Width + Min(hit) ELSE scan[sw + 1]
  IN scan[from0 \div Width]

next_set_from(bm, idx) ==
  LET w      == idx \div Width
      masked == {b \in Word(bm.words, w) : b >= idx % Width}
      next   == SummaryNext(bm, w)
  IN IF w >= Len(bm.words) THEN None
     ELSE IF masked # {} THEN w * Width + Min(masked)
     ELSE IF next = None \/ next >= Len(bm.words) THEN None
     ELSE next * Width + Min(Word(bm.words, next))

\* The downward scan: summary words below that of word w0, w0 included.
SummaryPrev(bm, w0) ==
  LET scan[sw \in -1..(Len(bm.summary) - 1)] ==
        IF sw = -1 THEN None
        ELSE LET upto == IF sw = w0 \div Width THEN w0 % Width ELSE Width - 1
                 hit  == {b \in Word(bm.summary, sw) : b <= upto}
             IN IF hit # {} THEN sw * Width + Max(hit) ELSE scan[sw - 1]
  IN scan[w0 \div Width]

prev_set_from(bm, idx0) ==
  LET idx    == IF idx0 \div Width >= Len(bm.words) THEN Len(bm.words) * Width - 1 ELSE idx0
      w      == idx \div Width
      masked == {b \in Word(bm.words, w) : b <= idx % Width}
      prev   == SummaryPrev(bm, w - 1)
  IN IF Len(bm.words) = 0 THEN None
     ELSE IF masked # {} THEN w * Width + Max(masked)
     ELSE IF w = 0 \/ prev = None THEN None
     ELSE prev * Width + Max(Word(bm.words, prev))

-----------------------------------------------------------------------------
(* Ladder.                                                                 *)

index_of(tick) ==
  IF levelCount = 0 \/ tick < baseTick \/ tick - baseTick >= levelCount
  THEN None ELSE tick - baseTick

\* Next occupied index strictly worse than idx: below it for bids ("Long"),
\* above it for asks ("Short").
next_worse_level(bm, side, idx) ==
  IF side = "Long"
  THEN IF idx = 0 THEN None ELSE prev_set_from(bm, idx - 1)
  ELSE next_set_from(bm, idx + 1)

\* The ladder after ensure(tick), as [base, count, bm].
ensure(tick) ==
  LET bm == [words |-> words, summary |-> summary] IN
  CASE levelCount = 0 ->
         [base |-> tick, count |-> 1, bm |-> ensure_len(bm, 1)]
    [] levelCount > 0 /\ tick < baseTick ->
         LET shift == baseTick - tick IN
         [base |-> tick, count |-> levelCount + shift,
          bm |-> shift_up(bm, shift, levelCount + shift)]
    [] levelCount > 0 /\ tick >= baseTick /\ tick - baseTick >= levelCount ->
         [base |-> baseTick, count |-> tick - baseTick + 1,
          bm |-> ensure_len(bm, tick - baseTick + 1)]
    [] OTHER ->
         [base |-> baseTick, count |-> levelCount, bm |-> bm]

LadderInit ==
  /\ baseTick = 0 /\ levelCount = 0
  /\ words = <<>> /\ summary = <<>>
  /\ occupied = {}

\* push_back of the first order of a level: ensure(tick), mark_occupied.
Occupy(tick) ==
  LET l  == ensure(tick)
      bm == set(l.bm, tick - l.base)
  IN /\ tick \notin occupied
     /\ baseTick' = l.base /\ levelCount' = l.count
     /\ words' = bm.words /\ summary' = bm.summary
     /\ occupied' = occupied \cup {tick}

\* unlink of the last order of a level: mark_empty(index_of(tick)).
Vacate(tick) ==
  LET bm == clear([words |-> words, summary |-> summary], index_of(tick)) IN
  /\ tick \in occupied
  /\ words' = bm.words /\ summary' = bm.summary
  /\ occupied' = occupied \ {tick}
  /\ UNCHANGED <<baseTick, levelCount>>

LadderNext == \E tick \in Ticks : Occupy(tick) \/ Vacate(tick)

-----------------------------------------------------------------------------
(* Properties.                                                             *)

\* The summary tier is exact: its bit w is set iff word w is nonzero, through
\* every growth and re-basing.  This is what the debug_assert_ne!(w, 0) of
\* next_set_from and prev_set_from rely on.
SummaryExact ==
  \A i \in 0..(Len(summary) * Width - 1) :
     (i % Width) \in Word(summary, i \div Width)
       <=> i < Len(words) /\ Word(words, i) # {}

\* After any sequence of appends, prepends (re-basing) and removals, the bits
\* set are exactly the indices of the levels that hold orders.
BitmapExact ==
  /\ {baseTick + i : i \in SetBits([words |-> words, summary |-> summary])} = occupied
  /\ \A t \in occupied : index_of(t) # None

\* next_worse_level, from any index of the ladder and on either side, finds the
\* nearest occupied level that is strictly worse, or nothing when there is
\* none: no word or summary boundary makes it skip a level or stop early.
WorseLevelExact ==
  LET bm == [words |-> words, summary |-> summary] IN
  \A i \in 0..(levelCount - 1) :
    LET below == {t \in occupied : t < baseTick + i}
        above == {t \in occupied : t > baseTick + i}
    IN /\ next_worse_level(bm, "Long", i) =
            IF below = {} THEN None ELSE Max(below) - baseTick
       /\ next_worse_level(bm, "Short", i) =
            IF above = {} THEN None ELSE Min(above) - baseTick
=============================================================================
