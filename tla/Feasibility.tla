---------------------------- MODULE Feasibility ----------------------------
(***************************************************************************)
(* Feasibility/feasibility_tests.c: the three feasibility tests of a set   *)
(* of services, given highest priority first by their periods and worst    *)
(* case execution times, and lcm/lcmc.c.                                   *)
(***************************************************************************)
EXTENDS Integers, Sequences, FiniteSets, SequencesExt, FiniteSetsExt

CeilDiv(a, b) == (a + b - 1) \div b
Total(S, f(_)) == MapThenSumSet(f, S)

(* lcm/lcmc.c: the loops of subtractions.                                  *)
RECURSIVE gcfc(_, _)
gcfc(a, b) == IF a = b THEN a ELSE IF a > b THEN gcfc(a - b, b) ELSE gcfc(a, b - a)
RECURSIVE remain(_, _)
remain(r, b) == IF r >= b THEN remain(r - b, b) ELSE r
RECURSIVE divide(_, _)
divide(r, b) == IF r >= b THEN 1 + divide(r - b, b) ELSE 0

lcmc(a, b) == divide(a * b, gcfc(a, b))

(* The response time an is iterated from the sum of the execution times to *)
(* a fixed point.  Diverged stands for a loop that has not found one when  *)
(* an passes limit.                                                        *)
Diverged == -1
RECURSIVE CompletionTime(_, _, _, _, _)
CompletionTime(period, wcet, i, an, limit) ==
    LET anext == wcet[i] + Total(1 .. i - 1, LAMBDA j : CeilDiv(an, period[j]) * wcet[j])
    IN  IF anext = an THEN an
        ELSE IF anext > limit THEN Diverged
        ELSE CompletionTime(period, wcet, i, anext, limit)

completion_time_feasibility(period, wcet, deadline, limit) ==
    LET an(i) == CompletionTime(period, wcet, i, Total(1 .. i, LAMBDA j : wcet[j]), limit)
    IN  IF \E i \in DOMAIN period : an(i) = Diverged THEN "loops"
        ELSE IF \E i \in DOMAIN period : an(i) > deadline[i] THEN "infeasible"
        ELSE "feasible"

scheduling_point_once(period, wcet) ==
    LET point(i, k, l) ==
            Total(1 .. i, LAMBDA j : wcet[j] * CeilDiv(l * period[k], period[j])) <= l * period[k]
    IN  IF \A i \in DOMAIN period :
               \E k \in 1 .. i : \E l \in 1 .. 1 : point(i, k, l)
        THEN "feasible" ELSE "infeasible"

scheduling_point_feasibility(period, wcet) ==
    LET point(i, k, l) ==
            Total(1 .. i, LAMBDA j : wcet[j] * CeilDiv(l * period[k], period[j])) <= l * period[k]
    IN  IF \A i \in DOMAIN period :
               \E k \in 1 .. i : \E l \in 1 .. period[i] \div period[k] : point(i, k, l)
        THEN "feasible" ELSE "infeasible"

(* The least common multiple of the periods.                               *)
MajorPeriod(period) ==
    Min({m \in 1 .. FoldLeft(LAMBDA x, y : x * y, 1, period) :
             \A i \in DOMAIN period : m % period[i] = 0})

(* utility_sum <= n * (2^(1/n) - 1), without the roots: with U = a / b,    *)
(* (1 + U / n)^n <= 2.                                                     *)
rate_monotonic_least_upper_bound(period, wcet) ==
    LET n == Len(period)
        b == MajorPeriod(period)
        a == Total(DOMAIN period, LAMBDA j : wcet[j] * (b \div period[j]))
    IN  IF (n * b + a) ^ n <= 2 * ((n * b) ^ n) THEN "feasible" ELSE "infeasible"

---------------------------------------------------------------------------
(* The reference: the schedule itself.  Every service is released at time  *)
(* 0 and at each of its periods, the first one with work left runs, and a  *)
(* deadline is missed when a release finds work left.  It suffices to look *)
(* at the first period of each service after all start together.           *)
RECURSIVE Simulate(_, _, _, _)
Simulate(period, wcet, left, t) ==
    LET late == {i \in DOMAIN period : t > 0 /\ t % period[i] = 0 /\ left[i] > 0}
        due  == [i \in DOMAIN period |-> IF t % period[i] = 0 THEN wcet[i] ELSE left[i]]
        run  == {i \in DOMAIN period : due[i] > 0}
        next == [i \in DOMAIN period |-> IF run # {} /\ i = Min(run) THEN due[i] - 1 ELSE due[i]]
    IN  IF late # {} THEN "infeasible"
        ELSE IF t = period[Len(period)] THEN "feasible"
        ELSE Simulate(period, wcet, next, t + 1)

Overloaded(period, wcet) ==
    LET b == MajorPeriod(period)
    IN  Total(DOMAIN period, LAMBDA j : wcet[j] * (b \div period[j])) > b

(* A set that is not overloaded has caught up with its work by then.       *)
FeasBound(period) == MajorPeriod(period)

(* The two exact tests agree with each other and with the schedule, and    *)
(* the least upper bound never accepts a set the schedule rejects.  The    *)
(* loop of the completion test ends by the common multiple of the periods  *)
(* unless the set is overloaded.                                           *)
FeasibilityExact(period, wcet) ==
    LET ct  == completion_time_feasibility(period, wcet, period, FeasBound(period))
        sim == Simulate(period, wcet, [i \in DOMAIN period |-> 0], 0)
        sp  == scheduling_point_feasibility(period, wcet)
        lub == rate_monotonic_least_upper_bound(period, wcet)
    IN  /\ sp = sim
        /\ ct # "loops" => ct = sim
        /\ ct = "loops" => Overloaded(period, wcet) /\ sim = "infeasible"
        /\ lub = "feasible" => sim = "feasible"

(* lcmc gives the least common multiple, from subtractions only, and       *)
(* divide and remain the quotient and the remainder.                       *)
LcmExact(a, b) ==
    /\ lcmc(a, b) = CHOOSE m \in 1 .. a * b :
                        /\ m % a = 0 /\ m % b = 0
                        /\ \A k \in 1 .. m - 1 : k % a # 0 \/ k % b # 0
    /\ divide(a, b) * b + remain(a, b) = a /\ remain(a, b) < b

=============================================================================
