----------------------------- MODULE ImpactTwap -----------------------------
(***************************************************************************)
(* The trade-driven average price of one market: MarketImpactTwap.sol over *)
(* the ring of per-block observations of RingBuffer.sol.  A trade counts   *)
(* for the block it was made in; one block is one second.  SCALE is 1, and *)
(* a uint104 has Width bits.                                               *)
(***************************************************************************)
EXTENDS Integers, Sequences, FiniteSets, FiniteSetsExt, SequencesExt, Functions

CONSTANTS
  WINDOW_BLOCKS,  \* 60 in the code
  Width,          \* of a stored sum
  MaxBlock,
  Trades          \* what settleTrade reports: [price, size]

ASSUME ImpactTwapAssumption ==
  /\ WINDOW_BLOCKS \in Nat \ {0} /\ MaxBlock \in Nat \ {0}
  /\ Width \in Nat /\ 2^Width \in Nat \ {0}
  /\ \A x \in Trades : x.price \in Nat \ {0} /\ x.size \in Nat \ {0}

None == [block |-> 0, volume |-> 0, size |-> 0]

VARIABLES
  block,          \* block.number
  latest, ring,   \* the Buffer
  traded          \* history: block -> the trades made in it

twapVars == <<block, latest, ring, traded>>

Cast(x) == x % (2^Width)

\* A sum that does not fit reverts the trade, one product that does not fit is
\* cut by the cast.  A new block moves the accumulator to its slot.
record(volume, size) ==
  IF latest.block = block
  THEN /\ latest.volume + volume < 2^Width /\ latest.size + size < 2^Width
       /\ latest' = [latest EXCEPT !.volume = @ + volume, !.size = @ + size]
       /\ UNCHANGED ring
  ELSE /\ ring' = IF latest.size = 0 THEN ring
                  ELSE [ring EXCEPT ![latest.block % WINDOW_BLOCKS] = latest]
       /\ latest' = [block |-> block, volume |-> volume, size |-> size]

recordTrade(x) ==
  /\ record(Cast(x.price * x.size), Cast(x.size))
  /\ traded' = [traded EXCEPT ![block] = Append(@, x)]
  /\ UNCHANGED block

\* Mutant: a slot left over from an earlier round counts.
InWindowAny(obs) == obs.size # 0

InWindow(obs) == obs.size # 0 /\ block - obs.block < WINDOW_BLOCKS

\* The mean of the per-block averages, each rounded down.
meanBlockVwap ==
  LET slots == {i \in DOMAIN ring : InWindow(ring[i])}
      sum   == SumFunctionOnSet([i \in slots |-> ring[i].volume \div ring[i].size], slots)
                 + (IF InWindow(latest) THEN latest.volume \div latest.size ELSE 0)
      count == Cardinality(slots) + (IF InWindow(latest) THEN 1 ELSE 0)
  IN [count |-> count, mean |-> IF count = 0 THEN 0 ELSE sum \div count]

TwapInit ==
  /\ block = 1
  /\ latest = None
  /\ ring = [i \in 0..WINDOW_BLOCKS - 1 |-> None]
  /\ traded = [n \in 1..MaxBlock |-> <<>>]

----------------------------------------------------------------------------
(* Properties *)

\* The same mean from the trades themselves.
VolumeOf(ts) == SumFunctionOnSet([k \in 1..Len(ts) |-> ts[k].price * ts[k].size], 1..Len(ts))
SizeOf(ts) == SumFunctionOnSet([k \in 1..Len(ts) |-> ts[k].size], 1..Len(ts))
BlockVwap(n) == VolumeOf(traded[n]) \div SizeOf(traded[n])
Recent == {n \in 1..block : block - n < WINDOW_BLOCKS /\ traded[n] # <<>>}

(* The ring, with slots overwritten lazily and left stale, and the open    *)
(* accumulator beside it, averages exactly the blocks of the window that   *)
(* had trades: none twice, none too old, none lost on a slot collision.    *)
TwapExact ==
  meanBlockVwap =
    [count |-> Cardinality(Recent),
     mean  |-> IF Recent = {} THEN 0
               ELSE SumFunctionOnSet([n \in Recent |-> BlockVwap(n)], Recent) \div Cardinality(Recent)]
=============================================================================
