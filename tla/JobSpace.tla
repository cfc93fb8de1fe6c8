------------------------------ MODULE JobSpace ------------------------------
(***************************************************************************)
(* The search space of a job (job_source): the extranonce slot of the      *)
(* coinbase and its counter (extranonce.rs), the rollable bits of the      *)
(* block version (version.rs), the merkle root (merkle.rs, job.rs), and    *)
(* the share that names a point of the space to the pool (stratum_v1.rs).  *)
(*                                                                         *)
(* The machine holds one range and one iterator over it: the range is      *)
(* made, split and rolled through from both ends, as hash threads do.      *)
(* A version, a mask and general purpose bits are sets of bit positions;   *)
(* sha256d is an injective pairing.  Printing is left out.                 *)
(***************************************************************************)
EXTENDS Integers, Sequences, SequencesExt

CONSTANTS
  Radix,           \* values of a byte: 256
  COUNTER_WIDTH,   \* bytes of the counter: 8
  MAX_WIDTH,       \* bytes of the widest slot: 32
  VersionBits,     \* bits of a block version: 32
  GpLow, GpCount,  \* the general purpose bits: 16 of them, from 13
  MaxParts,        \* bound: hash threads a range is split among
  MaxBranches      \* bound: height of the merkle tree

ASSUME WidthsAreNat ==
  /\ Radix \in Nat \ {0, 1} /\ COUNTER_WIDTH \in Nat \ {0} /\ MAX_WIDTH \in Nat \ {0}
  /\ COUNTER_WIDTH <= MAX_WIDTH /\ MaxParts \in Nat /\ MaxBranches \in Nat
ASSUME BitsFit == GpLow \in Nat /\ GpCount \in Nat /\ GpLow + GpCount <= VersionBits

(* An Option or a Result: the value it holds is its only element.          *)
None    == <<>>
Err     == <<>>
Some(v) == <<v>>
The(o)  == o[1]

-----------------------------------------------------------------------------
(***************************************************************************)
(* Extranonces.                                                            *)
(***************************************************************************)
(* The powers of b, as a function of the exponent.                         *)
Power(b) == LET power[n \in Nat] == IF n = 0 THEN 1 ELSE b * power[n - 1] IN power

CounterMax == Power(Radix)[COUNTER_WIDTH] - 1

check_width(width) == width \in 1 .. MAX_WIDTH

max_counter(width) == IF width >= COUNTER_WIDTH THEN CounterMax ELSE Power(Radix)[width] - 1

(* to_be_bytes of a number in n bytes, and the number of such bytes.       *)
be_bytes(number, n) == [k \in 1 .. n |-> (number \div Power(Radix)[n - k]) % Radix]
ValueOf(bytes) ==
  LET value[n \in 0 .. Len(bytes)] == IF n = 0 THEN 0 ELSE value[n - 1] * Radix + bytes[n]
  IN value
from_be(bytes) == ValueOf(bytes)[Len(bytes)]

(* Mutant: the counter is written at the left end of the slot.             *)
extranonce_bytes_left(e) ==
  be_bytes(e.counter, IF e.width <= COUNTER_WIDTH THEN e.width ELSE COUNTER_WIDTH)
    \o [k \in 1 .. (IF e.width <= COUNTER_WIDTH THEN 0 ELSE e.width - COUNTER_WIDTH) |-> 0]

(* Zeros left of the counter, then its low bytes.                          *)
extranonce_bytes(e) ==
  LET counter_bytes == IF e.width <= COUNTER_WIDTH THEN e.width ELSE COUNTER_WIDTH
  IN [k \in 1 .. e.width - counter_bytes |-> 0]
       \o SubSeq(be_bytes(e.counter, COUNTER_WIDTH),
                 COUNTER_WIDTH - counter_bytes + 1, COUNTER_WIDTH)

from_bytes(bs) ==
  LET padding == IF Len(bs) > COUNTER_WIDTH THEN Len(bs) - COUNTER_WIDTH ELSE 0
  IN IF ~check_width(Len(bs)) \/ (\E k \in 1 .. padding : bs[k] # 0)
       THEN Err
       ELSE Some([counter |-> from_be(SubSeq(bs, padding + 1, Len(bs))), width |-> Len(bs)])

full(width) == [first |-> 0, last |-> max_counter(width), width |-> width]

starting_at(e) == [first |-> e.counter, last |-> max_counter(e.width), width |-> e.width]

range_len(r) == r.last - r.first + 1

(* The successor of the last part may wrap, and is not used.               *)
part_span(r, n, i) ==
  (range_len(r) \div n) + (IF i < range_len(r) % n THEN 1 ELSE 0) - 1

part_firsts(r, n) ==
  LET first[i \in 0 .. n] ==
        IF i = 0 THEN r.first
        ELSE (first[i - 1] + part_span(r, n, i - 1) + 1) % (CounterMax + 1)
  IN first

parts_of(r, n) ==
  [k \in 1 .. n |->
     [first |-> part_firsts(r, n)[k - 1],
      last  |-> part_firsts(r, n)[k - 1] + part_span(r, n, k - 1), width |-> r.width]]

split(r, n) == IF n = 0 \/ n > range_len(r) THEN None ELSE Some(parts_of(r, n))

-----------------------------------------------------------------------------
(***************************************************************************)
(* ExtranonceIter: [next, last], where next is None at the end.  Each      *)
(* method gives the iterator it leaves and the counter it returns.         *)
(***************************************************************************)
iter(r) == [next |-> Some(r.first), last |-> r.last]

Ended(i) == i.next = None
Gives(i, item) == [it |-> i, item |-> item]
Exhaust(i) == Gives([i EXCEPT !.next = None], None)

remaining(i) == IF Ended(i) THEN 0 ELSE i.last - The(i.next) + 1

iter_last(i) == IF Ended(i) THEN None ELSE Some(i.last)

next(i) ==
  IF Ended(i) THEN Gives(i, None)
  ELSE Gives([i EXCEPT !.next = IF The(@) < i.last THEN Some(The(@) + 1) ELSE None], i.next)

(* next.checked_add(n), then filter.                                       *)
nth(i, n) ==
  IF Ended(i) THEN Gives(i, None)
  ELSE IF The(i.next) + n <= CounterMax /\ The(i.next) + n <= i.last
    THEN next([i EXCEPT !.next = Some(The(@) + n)])
    ELSE Exhaust(i)

(* Mutant: the last value at the back does not end the iterator.           *)
next_back_stays(i) ==
  IF Ended(i) THEN Gives(i, None) ELSE Gives([i EXCEPT !.last = @ - 1], Some(i.last))

next_back(i) ==
  IF Ended(i) THEN Gives(i, None)
  ELSE Gives(IF i.last = The(i.next) THEN [i EXCEPT !.next = None]
             ELSE [i EXCEPT !.last = @ - 1],
             Some(i.last))

nth_back(i, n) ==
  IF Ended(i) THEN Gives(i, None)
  ELSE IF i.last - n >= 0 /\ i.last - n >= The(i.next)
    THEN next_back([i EXCEPT !.last = @ - n])
    ELSE Exhaust(i)

-----------------------------------------------------------------------------
(***************************************************************************)
(* Versions.                                                               *)
(***************************************************************************)
Bit    == 0 .. VersionBits - 1
GpBit  == 0 .. GpCount - 1
GpArea == GpLow .. GpLow + GpCount - 1

contains(mask, bits) == bits \ mask = {}

apply_to_version(bits, base) == base \cup {b + GpLow : b \in bits}

(* From<&[u8; 4]>: bits 13 to 28 of the pool's mask.                       *)
gp_mask(mask) == {b - GpLow : b \in mask \cap GpArea}

VersionTemplate(base, mask) ==
  IF base \cap GpArea # {} THEN Err ELSE Some([base |-> base, gp_bits_mask |-> mask])

apply_gp_bits(t, bits) ==
  IF contains(t.gp_bits_mask, bits) THEN Some(apply_to_version(bits, t.base)) ELSE Err

-----------------------------------------------------------------------------
(***************************************************************************)
(* Merkle roots and shares.                                                *)
(***************************************************************************)
sha256d(left, right) == [l |-> left, r |-> right]
txid(coinbase) == [tx |-> coinbase]

(* The hashes on the way from a leaf to the root.                          *)
Climb(leaf, branches) ==
  LET node[h \in 0 .. Len(branches)] ==
        IF h = 0 THEN leaf ELSE sha256d(node[h - 1], branches[h])
  IN node

(* MerkleRootTemplate::compute_merkle_root; parts that do not deserialize  *)
(* to a transaction give no root.                                          *)
compute_merkle_root(job, e) ==
  IF job.root = "fixed" \/ ~job.deserializes THEN Err
  ELSE LET coinbase == job.coinbase1 \o job.extranonce1 \o extranonce_bytes(e) \o job.coinbase2
       IN Some(Climb(txid(coinbase), job.branches)[Len(job.branches)])

(* job_to_template, with the pool's session: its mask, or None, its        *)
(* extranonce1 and the size of extranonce2.                                *)
job_to_template(session, notify) ==
  LET mask == IF session.mask = None THEN {} ELSE gp_mask(The(session.mask))
      version == VersionTemplate(notify.version, mask)
  IN IF version = Err \/ ~check_width(session.extranonce2_size) THEN Err
     ELSE Some([version |-> The(version), range |-> full(session.extranonce2_size),
                root |-> "computed", deserializes |-> TRUE,
                coinbase1 |-> notify.coinbase1, extranonce1 |-> session.extranonce1,
                coinbase2 |-> notify.coinbase2, branches |-> notify.branches])

(* share_to_submit_params.                                                 *)
share_to_submit_params(session, share) ==
  [extranonce2  |-> IF share.extranonce = None THEN [k \in 1 .. session.extranonce2_size |-> 0]
                    ELSE extranonce_bytes(The(share.extranonce)),
   version_bits |-> IF session.mask = None THEN None
                    ELSE Some(share.version \cap The(session.mask))]

-----------------------------------------------------------------------------
(***************************************************************************)
(* The machine.                                                            *)
(***************************************************************************)
VARIABLES
  range,    \* an ExtranonceRange
  it,       \* an ExtranonceIter over it
  left,     \* what a sequence of the range's counters still holds
  returned  \* [item, wanted] of the last call

spaceVars == <<range, it, left, returned>>

Counters(r) == [k \in 1 .. range_len(r) |-> r.first + k - 1]

Holds(r) == range = r /\ it = iter(r) /\ left = Counters(r) /\ returned = Gives(None, None)

SpaceInit ==
  \E w \in 1 .. MAX_WIDTH, c \in 0 .. CounterMax :
     LET e == from_bytes(be_bytes(c, w)) IN e # Err /\ Holds(starting_at(The(e)))

(* One of the parts goes to a thread, which begins to roll it.             *)
SplitFor(n, k) ==
  /\ split(range, n) # None
  /\ range' = The(split(range, n))[k] /\ it' = iter(range') /\ left' = Counters(range')
  /\ returned' = Gives(None, None)

(* A call, and the sequence's answer to it.                                *)
Calls(call, item, rest) ==
  /\ it' = call.it /\ left' = rest
  /\ returned' = Gives(call.item, item)
  /\ UNCHANGED range

CallNth(n) ==
  Calls(nth(it, n), IF n < Len(left) THEN Some(left[n + 1]) ELSE None,
        SubSeq(left, n + 2, Len(left)))

CallNthBack(n) ==
  Calls(nth_back(it, n), IF n < Len(left) THEN Some(left[Len(left) - n]) ELSE None,
        SubSeq(left, 1, Len(left) - n - 1))

CallNext == Calls(next(it), IF left = <<>> THEN None ELSE Some(Head(left)),
                  IF left = <<>> THEN <<>> ELSE Tail(left))

CallNextBack == Calls(next_back(it), IF left = <<>> THEN None ELSE Some(Last(left)),
                      IF left = <<>> THEN <<>> ELSE Front(left))

SpaceNext ==
  \/ \E n \in 1 .. MaxParts : \E k \in 1 .. n : SplitFor(n, k)
  \/ \E n \in 0 .. CounterMax + 1 : CallNth(n) \/ CallNthBack(n)
  \/ CallNext
  \/ CallNextBack

SpaceSpec == SpaceInit /\ [][SpaceNext]_spaceVars

-----------------------------------------------------------------------------
(***************************************************************************)
(* Properties.                                                             *)
(***************************************************************************)

(* The extranonces that a split deals out: none left out, none to two      *)
(* threads, and lengths that differ by one at most, the longer ones first. *)
Partitions(n) ==
  LET parts == The(split(range, n))
      size(k) == range_len(parts[k])
  IN IF split(range, n) = None THEN n = 0 \/ n > range_len(range)
     ELSE /\ FlattenSeq([k \in 1 .. n |-> Counters(parts[k])]) = Counters(range)
          /\ \A k \in 1 .. n : size(k) > 0 /\ size(k) \in {size(n), size(n) + 1}
          /\ \A k \in 2 .. n : size(k) <= size(k - 1)

(* Each extranonce is tried once: a range, one that ends at the largest    *)
(* counter like any other, is split into parts without gap or overlap, and *)
(* rolling a part from both ends, in any order of calls, returns what the  *)
(* sequence of its extranonces returns, and leaves as many.                *)
EachExtranonceOnce ==
  /\ \A n \in 0 .. MaxParts : Partitions(n)
  /\ returned.item = returned.it
  /\ remaining(it) = Len(left)
  /\ iter_last(it) = IF left = <<>> THEN None ELSE Some(Last(left))

(* The levels of a merkle tree of 2^height leaves.                         *)
Levels(leaves, height) ==
  LET level[h \in 0 .. height] ==
        IF h = 0 THEN leaves
        ELSE [k \in 1 .. Power(2)[height - h] |->
                sha256d(level[h - 1][2 * k - 1], level[h - 1][2 * k])]
  IN level

(* The pool, which knows the transactions, its session and the submitted   *)
(* share, rebuilds the header that was hashed: the extranonce in a slot of *)
(* any width, the root of the whole merkle tree, and the version (BIP 310: *)
(* its own bits outside the mask, the submitted ones inside), also when    *)
(* its mask has bits outside the general purpose ones.                     *)
PoolRebuildsHeader ==
  ~Ended(it) =>
  \A mask \in {Some(b) : b \in SUBSET Bit} \cup {None},
     base \in SUBSET (Bit \ GpArea), bits \in SUBSET GpBit, height \in 0 .. MaxBranches :
    LET tree(coinbase) ==
          Levels([k \in 1 .. Power(2)[height] |-> IF k = 1 THEN coinbase ELSE txid(<<k>>)], height)
        session == [mask |-> mask, extranonce1 |-> <<1>>, extranonce2_size |-> range.width]
        notify == [version |-> base, coinbase1 |-> <<0>>, coinbase2 |-> <<1, 0>>,
                   branches |-> [h \in 1 .. height |-> tree(txid(<<>>))[h - 1][2]]]
        job == The(job_to_template(session, notify))
        rolled == apply_gp_bits(job.version, bits)
        e == [counter |-> The(it.next), width |-> range.width]
        submit == share_to_submit_params(session, [extranonce |-> Some(e),
                                                   version |-> The(rolled)])
        coinbase == txid(<<0>> \o <<1>> \o submit.extranonce2 \o <<1, 0>>)
    IN rolled # Err =>
         /\ from_bytes(submit.extranonce2) = Some(e)
         /\ compute_merkle_root(job, e) = Some(tree(coinbase)[height][1])
         /\ The(rolled) = IF mask = None THEN base
                          ELSE (base \ The(mask)) \cup The(submit.version_bits)
=============================================================================
