----------------------------- MODULE Allocation -----------------------------
(***************************************************************************)
(* The allocator of eval/build_gold.py: how many clusters each stratum, a  *)
(* category with a severity, gives to the sample that people will label,   *)
(* under a target, a cap on the category `unknown`, the rule that takes    *)
(* every critical and high cluster, and a floor for each other category.   *)
(*                                                                         *)
(* A pool is size[category][severity].  The draw inside a stratum and the  *)
(* notes of the coverage report are left out.                              *)
(***************************************************************************)
EXTENDS Naturals, Sequences, FiniteSets, FiniteSetsExt

CONSTANTS
    Classified,   \* the categories other than unknown, in the order of _category_rank
    Unknown,
    Severities,   \* in the order of SEVERITIES
    CritHigh      \* the severities the take-all rule is about

Categories == {Classified[i] : i \in DOMAIN Classified} \cup {Unknown}
Order == Append(Classified, Unknown)
Elements(s) == {s[i] : i \in DOMAIN s}
Total(f) == SumSet({0}) + MapThenSumSet(LAMBDA x : f[x], DOMAIN f)
Least(a, b) == IF a < b THEN a ELSE b

(* The bug of shares rounded down. *)
RoundedDown(keys, size, k) ==
    [x \in DOMAIN size |-> IF Total(size) = 0 THEN 0
                           ELSE Least(size[x], (k * size[x]) \div Total(size))]

(* _largest_remainder: k units over the keys of a sequence, in proportion  *)
(* to their sizes; what the floors leave goes to the largest remainders,   *)
(* the earlier key first.  Remainders are in units of 1/total.             *)
LargestRemainder(keys, size, k) ==
    LET total == Total(size)
        floor(x) == (k * size[x]) \div total
        rest(x) == (k * size[x]) % total
        leftover == k - Total([x \in DOMAIN size |-> floor(x)])
        ahead(i) == {j \in DOMAIN keys : \/ rest(keys[j]) > rest(keys[i])
                                         \/ rest(keys[j]) = rest(keys[i]) /\ j < i}
        place(x) == CHOOSE i \in DOMAIN keys : keys[i] = x
    IN  [x \in DOMAIN size |->
            IF total = 0 THEN 0
            ELSE IF k >= total THEN size[x]
            ELSE floor(x) + (IF Cardinality(ahead(place(x))) < leftover THEN 1 ELSE 0)]

(* _floor_topup: the first category below its floor takes from the largest *)
(* allocation that has something above its own floor; a category nothing   *)
(* can lift is put aside.                                                  *)
RECURSIVE FloorTopup(_, _, _, _)
FloorTopup(alloc, fixed, wanted, stuck) ==
    LET cats == DOMAIN alloc
        rank(c) == CHOOSE i \in DOMAIN Classified : Classified[i] = c
        total(c) == fixed[c] + alloc[c]
        below == {c \in cats \ stuck : total(c) < wanted[c]}
        to == CHOOSE c \in below : \A d \in below : rank(c) <= rank(d)
        surplus(c) == IF total(c) <= wanted[c] THEN 0 ELSE Least(alloc[c], total(c) - wanted[c])
        donors == {c \in cats \ {to} : surplus(c) > 0}
        from == CHOOSE c \in donors : \A d \in donors :
                    alloc[c] > alloc[d] \/ (alloc[c] = alloc[d] /\ rank(c) <= rank(d))
        give == Least(surplus(from), wanted[to] - total(to))
    IN  IF below = {} THEN alloc
        ELSE IF donors = {} THEN FloorTopup(alloc, fixed, wanted, stuck \cup {to})
        ELSE FloorTopup([alloc EXCEPT ![from] = @ - give, ![to] = @ + give], fixed, wanted, stuck)

---------------------------------------------------------------------------
SizeOf(size, c, sevs) == MapThenSumSet(LAMBDA s : size[c][s], sevs)
PoolSize(size) == MapThenSumSet(LAMBDA c : SizeOf(size, c, Elements(Severities)), Categories)
Budget(p) == (p.target * p.cap) \div 100
Wanted(size, p) == [c \in Elements(Classified) |->
                        Least(p.floor, SizeOf(size, c, Elements(Severities)))]
NoneFixed == [c \in Elements(Classified) |-> 0]

(* split_category, on the severities the rule leaves to it. *)
Split(size, c, k, sevs) ==
    LargestRemainder(SelectSeq(Severities, LAMBDA s : s \in sevs), [s \in sevs |-> size[c][s]], k)

(* Classified categories by proportion and floors, `fixed` already taken.  *)
Shares(size, p, sevs, k, fixed) ==
    FloorTopup(LargestRemainder(Classified,
                                [c \in Elements(Classified) |-> SizeOf(size, c, sevs)], k),
               fixed, Wanted(size, p), {})

Plan(size, unknown, shares, sevs, taken) ==
    [c \in Categories |->
        LET part == Split(size, c, IF c = Unknown THEN unknown ELSE shares[c], sevs)
        IN  [s \in Elements(Severities) |-> IF s \in sevs THEN part[s] ELSE taken[c][s]]]

(* proportional_over_all: the take-all rule alone is over the target. *)
ProportionalOverAll(size, p, target) ==
    LET sevs == Elements(Severities)
        all == LargestRemainder(Order, [c \in Categories |-> SizeOf(size, c, sevs)], target)
        unknown == Least(all[Unknown], Budget(p))
    IN  Plan(size, unknown, Shares(size, p, sevs, target - unknown, NoneFixed), sevs, size)

TakeAllCritHigh(size, p, target) ==
    LET sevs == Elements(Severities) \ CritHigh
        taken == MapThenSumSet(LAMBDA c : SizeOf(size, c, CritHigh), Categories)
        takenUnknown == SizeOf(size, Unknown, CritHigh)
        left == IF Budget(p) > takenUnknown THEN Budget(p) - takenUnknown ELSE 0
        unknown == Least(Least(left, target - taken), SizeOf(size, Unknown, sevs))
        fixed == [c \in Elements(Classified) |-> SizeOf(size, c, CritHigh)]
    IN  Plan(size, unknown, Shares(size, p, sevs, target - taken - unknown, fixed), sevs, size)

ClassifiedFirst(size, p, target) ==
    LET sevs == Elements(Severities)
        classified == MapThenSumSet(LAMBDA c : SizeOf(size, c, sevs), Elements(Classified))
    IN  IF classified <= target
        THEN Plan(size, Least(target - classified, Budget(p)),
                  [c \in Elements(Classified) |-> SizeOf(size, c, sevs)], sevs, size)
        ELSE Plan(size, 0, Shares(size, p, sevs, target, NoneFixed), sevs, size)

OverTarget(size, target) ==
    MapThenSumSet(LAMBDA c : SizeOf(size, c, CritHigh), Categories) > target

(* _plan. *)
Allocate(size, p) ==
    LET target == Least(p.target, PoolSize(size))
    IN  IF ~ p.takeAll THEN ClassifiedFirst(size, p, target)
        ELSE IF OverTarget(size, target) THEN ProportionalOverAll(size, p, target)
        ELSE TakeAllCritHigh(size, p, target)

---------------------------------------------------------------------------
(* What the sample may be sure of, whatever the pool and the parameters.   *)
Drawn(plan, c) == SizeOf(plan, c, Elements(Severities))

WithinStrata(size, plan) ==
    \A c \in Categories, s \in Elements(Severities) : plan[c][s] <= size[c][s]

TakesAll(size, p) == p.takeAll /\ ~ OverTarget(size, Least(p.target, PoolSize(size)))

UnknownCapped(size, p, plan) ==
    LET forced == IF TakesAll(size, p) THEN SizeOf(size, Unknown, CritHigh) ELSE 0
    IN  Drawn(plan, Unknown) <= Budget(p) \/ Drawn(plan, Unknown) <= forced

(* Short of the target only with nothing classified left and the cap met.  *)
FillsTarget(size, p, plan) ==
    \/ PoolSize(plan) = Least(p.target, PoolSize(size))
    \/ /\ PoolSize(plan) < Least(p.target, PoolSize(size))
       /\ \A c \in Elements(Classified) : plan[c] = size[c]
       /\ Drawn(plan, Unknown) >= Budget(p)

(* A category is below its floor only when no other has one to spare.      *)
FloorsMet(size, p, plan) ==
    LET movable == IF TakesAll(size, p) THEN Elements(Severities) \ CritHigh
                   ELSE Elements(Severities)
    IN  \A c, d \in Elements(Classified) :
            Drawn(plan, c) < Wanted(size, p)[c] =>
                SizeOf(plan, d, movable) = 0 \/ Drawn(plan, d) <= Wanted(size, p)[d]

CritHighTaken(size, p, plan) ==
    TakesAll(size, p) => \A c \in Categories, s \in CritHigh : plan[c][s] = size[c][s]

SampleSound(size, p) ==
    \A plan \in {Allocate(size, p)} :
        /\ WithinStrata(size, plan) /\ UnknownCapped(size, p, plan)
        /\ FillsTarget(size, p, plan) /\ FloorsMet(size, p, plan) /\ CritHighTaken(size, p, plan)
=============================================================================
