----------------------------- MODULE MatchProofs ----------------------------
(***************************************************************************)
(* The correctness proofs of a sweep (proof.rs, match_correctness.rs) and  *)
(* the margin circuit (margin_correctness.rs).  A sweep's fills at or      *)
(* above the threshold become witnesses, the witnesses chunks, and every   *)
(* chunk a blocking task that proves it, or panics in `prove` when one of  *)
(* its constraints does not hold.  A commitment is the triple it commits   *)
(* to; the pairing arithmetic of Groth16 is not modelled.                  *)
(***************************************************************************)
EXTENDS Integers, Sequences, FiniteSets, SequencesExt

CONSTANTS
  MAX_BATCH_SIZE,       \* match_correctness.rs: 8
  NOTIONAL_THRESHOLD,   \* proof.rs: 1_000
  ProofTicks, SweepQtys, MakerSizes, MaxSweepFills,
  FieldModulus, FieldBits,   \* the scalar field and the length of its bits
  BIAS, SHIFT,               \* margin_correctness.rs: 2^40 and 10
  MarginSizes, TrustedTerms  \* signed position sizes; values of f_C + f_L

\* The powers of two, by doubling.
Pow2[n \in 0..FieldBits] == IF n = 0 THEN 1 ELSE 2 * Pow2[n - 1]

ASSUME ProofAssumption ==
  /\ MAX_BATCH_SIZE \in Nat \ {0} /\ NOTIONAL_THRESHOLD \in Nat
  /\ FieldModulus \in Nat /\ FieldBits \in Nat /\ FieldModulus <= Pow2[FieldBits]
  /\ BIAS \in Nat /\ SHIFT \in Nat /\ MarginSizes \subseteq Int /\ TrustedTerms \subseteq Int
  /\ \A q \in ProofTicks \union SweepQtys \union MakerSizes : q \in 0..(FieldModulus - 1)
  /\ \A s, t \in MarginSizes : SHIFT * (s + t) \in -BIAS..BIAS
  /\ 2 * BIAS < FieldModulus

VARIABLES
  sweep,    \* the taker: [buy, tick, tif, left], and its fills so far
  fills,
  tasks,    \* chunks whose blocking task has not ended
  ended,    \* chunks whose task ended: [chunk, proved]
  margin    \* the margin claim last proved and the circuit's verdict on it

proofVars == <<sweep, fills, tasks, ended, margin>>

NoClaim == [sizes |-> <<0, 0>>, trusted |-> 0, claimed |-> 0, holds |-> TRUE]

NoSweep == [buy |-> TRUE, tick |-> 0, tif |-> "none", left |-> 0]

---------------------------------------------------------------------------
(* The gadget: bits of the canonical value, most significant first.        *)

to_bits_be(a) == [i \in 1..FieldBits |-> (a \div Pow2[FieldBits - i]) % 2]

le(a, b) ==
  LET abits == to_bits_be(a)
      bbits == to_bits_be(b)
      step(acc, i) ==
        [greater    |-> acc.greater \/ (acc.still_tied /\ abits[i] = 1 /\ bbits[i] = 0),
         still_tied |-> acc.still_tied /\ abits[i] = bbits[i]]
  IN ~ FoldLeft(step, [greater |-> FALSE, still_tied |-> TRUE],
                [i \in 1..FieldBits |-> i]).greater

---------------------------------------------------------------------------
(* Circuits.                                                               *)

MatchCircuit(w) == [witness |-> w,
                    cmt_a |-> <<w.side_a, w.price_a, w.size_a>>,
                    cmt_b |-> <<w.side_b, w.price_b, w.size_b>>]

generate_constraints(c) ==
  LET w == c.witness
      buyer_price  == IF w.side_a THEN w.price_a ELSE w.price_b
      seller_price == IF w.side_a THEN w.price_b ELSE w.price_a
  IN /\ w.side_a # w.side_b
     /\ c.cmt_a = <<w.side_a, w.price_a, w.size_a>>
     /\ c.cmt_b = <<w.side_b, w.price_b, w.size_b>>
     /\ le(seller_price, w.match_price) /\ le(w.match_price, buyer_price)
     /\ le(w.match_size, w.size_a) /\ le(w.match_size, w.size_b)

padding_match ==
  MatchCircuit([side_a |-> TRUE, price_a |-> 0, size_a |-> 0, side_b |-> FALSE,
                price_b |-> 0, size_b |-> 0, match_price |-> 0, match_size |-> 0])

BatchCircuit(chunk) ==
  [i \in 1..MAX_BATCH_SIZE |-> IF i <= Len(chunk) THEN MatchCircuit(chunk[i])
                               ELSE padding_match]

\* `new` asserts the length, `prove` that every slot's constraints hold.
generate_batch_match_proof(chunk) ==
  /\ Len(chunk) <= MAX_BATCH_SIZE
  /\ \A i \in 1..MAX_BATCH_SIZE : generate_constraints(BatchCircuit(chunk)[i])

\* Mutant: the chunk that is not full is never pushed.
chunk_for_batchingFull(ws) ==
  [k \in 1..(Len(ws) \div MAX_BATCH_SIZE) |->
     SubSeq(ws, (k - 1) * MAX_BATCH_SIZE + 1, k * MAX_BATCH_SIZE)]

\* The loop pushes onto `current` and moves it to the chunks when full.
chunk_for_batching(ws) ==
  LET step(acc, w) ==
        LET current == Append(acc.current, w)
        IN IF Len(current) = MAX_BATCH_SIZE
           THEN [chunks |-> Append(acc.chunks, current), current |-> <<>>]
           ELSE [acc EXCEPT !.current = current]
      end == FoldLeft(step, [chunks |-> <<>>, current |-> <<>>], ws)
  IN end.chunks \o (IF end.current = <<>> THEN <<>> ELSE <<end.current>>)

---------------------------------------------------------------------------
(* One order's sweep.                                                      *)

Witness(s, f) ==
  [side_a |-> s.buy, price_a |-> s.tick, size_a |-> f.taker_size_before,
   side_b |-> ~ s.buy, price_b |-> f.tick, size_b |-> f.maker_size_before,
   match_price |-> f.tick, match_size |-> f.qty]

should_prove(traded_qty) == traded_qty >= NOTIONAL_THRESHOLD

provable_fills ==
  LET push(ws, f) == IF should_prove(f.qty) THEN Append(ws, Witness(sweep, f)) ELSE ws
  IN FoldLeft(push, <<>>, fills)

\* One sweep is followed to its end: sweeps share nothing but the keys.
BeginSweep(buy, tick, tif, qty) ==
  /\ sweep = NoSweep /\ tasks = {} /\ fills = <<>>
  /\ sweep' = [buy |-> buy, tick |-> tick, tif |-> tif, left |-> qty]
  /\ margin' = NoClaim
  /\ UNCHANGED <<fills, tasks, ended>>

PushFill(tick, qty, maker_size, backstop) ==
  /\ fills' = Append(fills, [tick |-> tick, qty |-> qty, backstop |-> backstop,
                             maker_size_before |-> maker_size,
                             taker_size_before |-> sweep.left])
  /\ sweep' = [sweep EXCEPT !.left = @ - qty]
  /\ UNCHANGED <<tasks, ended, margin>>

\* The book crosses its next maker, no better than the one before and within
\* the taker's limit.
BookFill(tick, maker_size) ==
  /\ sweep.left > 0 /\ Len(fills) < MaxSweepFills
  /\ fills # <<>> => /\ ~ Last(fills).backstop
                     /\ IF sweep.buy THEN Last(fills).tick <= tick ELSE tick <= Last(fills).tick
  /\ IF sweep.buy THEN tick <= sweep.tick ELSE sweep.tick <= tick
  /\ PushFill(tick, IF maker_size < sweep.left THEN maker_size ELSE sweep.left, maker_size, FALSE)

\* The backstop's fill comes last, at its own price, whatever the limit; only
\* an IOC takes a part, and a FOK only if the book gave it nothing.
BackstopFill(tick, filled) ==
  /\ sweep.left > 0
  /\ fills # <<>> => ~ Last(fills).backstop
  /\ sweep.tif # "ioc" => filled = sweep.left
  /\ sweep.tif = "fok" => fills = <<>>
  /\ PushFill(tick, filled, filled, TRUE)

\* The handler spawns one task for every chunk and does not wait for them.
SpawnProofs ==
  /\ sweep # NoSweep
  /\ sweep.tif = "fok" => sweep.left = 0 \/ fills = <<>>
  /\ tasks' = LET cs == chunk_for_batching(provable_fills)
              IN {[at |-> k, chunk |-> cs[k]] : k \in 1..Len(cs)}
  /\ sweep' = NoSweep
  /\ UNCHANGED <<fills, ended, margin>>

\* A task ends, in any order: with a proof, or by panicking in `prove`.
EndProof(t) ==
  /\ tasks' = tasks \ {t}
  /\ ended' = ended \union
                {[at |-> t.at, chunk |-> t.chunk, proved |-> generate_batch_match_proof(t.chunk)]}
  /\ UNCHANGED <<sweep, fills, margin>>

---------------------------------------------------------------------------
(* The margin circuit over the field: two positions, two scenario shifts,  *)
(* rho = 0.                                                                *)

Field(v) == v % FieldModulus

to_biased(v) == Field(v + BIAS)

unbiased(v) == Field(v - BIAS)

\* f_S: the larger of the two biased scenario values, its bias taken off.
f_S(sizes_biased) ==
  LET net_size == unbiased(sizes_biased[1]) + unbiased(sizes_biased[2])
      value(shift) == to_biased(shift * net_size)
  IN unbiased(IF le(value(-SHIFT), value(SHIFT)) THEN value(SHIFT) ELSE value(-SHIFT))

\* f_K = beta * rho * 2 s0 s1 is zero at the circuit's rho.
MarginConstraints(sizes_biased, trusted, m_claimed) ==
  m_claimed = Field(f_S(sizes_biased) + trusted)

CheckMargin(s0, s1, trusted, m_claimed) ==
  /\ sweep = NoSweep /\ tasks = {} /\ fills = <<>> /\ margin = NoClaim
  /\ margin' = [sizes |-> <<s0, s1>>, trusted |-> trusted, claimed |-> m_claimed,
                holds |-> MarginConstraints(<<to_biased(s0), to_biased(s1)>>, trusted, m_claimed)]
  /\ UNCHANGED <<sweep, fills, tasks, ended>>

---------------------------------------------------------------------------

ProofInit ==
  /\ sweep = NoSweep /\ fills = <<>> /\ tasks = {} /\ ended = {}
  /\ margin = NoClaim

ProofNext ==
  \/ \E buy \in BOOLEAN, tick \in ProofTicks, tif \in {"ioc", "fok", "gtc"}, qty \in SweepQtys :
       BeginSweep(buy, tick, tif, qty)
  \/ \E tick \in ProofTicks, size \in MakerSizes : BookFill(tick, size)
  \/ \E tick \in ProofTicks, filled \in 1..sweep.left : BackstopFill(tick, filled)
  \/ SpawnProofs
  \/ \E t \in tasks : EndProof(t)
  \/ \E s0, s1 \in MarginSizes, trusted \in TrustedTerms, m \in 0..(FieldModulus - 1) :
       CheckMargin(s0, s1, trusted, m)

---------------------------------------------------------------------------

BeyondLimit(w) ==
  IF w.side_a THEN w.match_price > w.price_a ELSE w.match_price < w.price_a

Provables == {i \in DOMAIN fills : fills[i].qty >= NOTIONAL_THRESHOLD}

OneSlotEach ==
  LET slots == {<<e.at, i>> : e \in ended, i \in 1..MAX_BATCH_SIZE}
      used == {s \in slots : \E e \in ended : e.at = s[1] /\ s[2] \in DOMAIN e.chunk}
  IN Cardinality(used) = Cardinality(Provables)

Stands(i) ==
  LET j == Cardinality({p \in Provables : p < i})
  IN \E e \in ended :
       /\ e.at = (j \div MAX_BATCH_SIZE) + 1
       /\ LET w == e.chunk[(j % MAX_BATCH_SIZE) + 1]
          IN /\ <<w.match_price, w.match_size>> = <<fills[i].tick, fills[i].qty>>
             /\ e.proved <=> \A k \in DOMAIN e.chunk : ~ BeyondLimit(e.chunk[k])

\* Once every task of a sweep has ended, each fill at or above the threshold
\* stands in exactly one chunk, and that chunk was proved unless the backstop
\* filled some fill of it beyond the taker's limit: the claim of
\* generate_batch_match_proof's `expect` (proof.rs), with its one exception.
ProvedUnlessBackstopBeyondLimit ==
  sweep = NoSweep /\ tasks = {} => OneSlotEach /\ \A i \in Provables : Stands(i)

\* The circuit accepts a match exactly when, as numbers, the price lies
\* between the two limits and the size within both: what the bitwise `le`
\* (match_correctness.rs) has to decide in a field without an order.
CircuitDecidesTheMatch ==
  \A e \in ended :
    e.proved <=> \A i \in DOMAIN e.chunk :
      LET w == e.chunk[i]
      IN /\ ~ BeyondLimit(w)
         /\ w.match_size <= w.size_a /\ w.match_size <= w.size_b

\* The margin circuit accepts a claim exactly when it is the native margin:
\* the worse of the two shifts on the signed net size, plus the trusted
\* terms, whatever the signs of the sizes (margin_correctness.rs).
MarginClaimExact ==
  LET net == margin.sizes[1] + margin.sizes[2]
  IN margin.holds <=>
       margin.claimed = Field(SHIFT * (IF net < 0 THEN -net ELSE net) + margin.trusted)
=============================================================================
