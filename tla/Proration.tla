----------------------------- MODULE Proration ------------------------------
(***************************************************************************)
(* Day-based proration and cancellation refunds (subscription/domain): the *)
(* pure part of the subscription module.  Dates are days, amounts cents; a *)
(* schedule is [start, end, amount].  Rounding is to the nearest cent,     *)
(* half up, as toFixed(2) does for the quotients a double represents.      *)
(***************************************************************************)
EXTENDS Integers

AtLeast(n, low)      == IF n < low THEN low ELSE n
AtMost(n, high)      == IF n > high THEN high ELSE n

(* The share of an amount that part of total days stand for.               *)
Share(amount, part, total) == (2 * amount * part + total) \div (2 * total)

TotalCycleDays(s) == AtLeast(s.end - s.start, 1)

(* Fault: a date before or after the cycle is taken as it is.              *)
DaysElapsedUnclamped(s, day) == day - s.start

(* The date is clamped into the cycle, the days into 0 .. TotalCycleDays.  *)
DaysElapsed(s, day) ==
    AtMost(AtLeast(AtMost(AtLeast(day, s.start), s.end) - s.start, 0),
           TotalCycleDays(s))

DaysRemaining(s, day) == TotalCycleDays(s) - DaysElapsed(s, day)

UsedAmount(s, day) == Share(s.amount, DaysElapsed(s, day), TotalCycleDays(s))

UnusedCredit(s, day) == s.amount - UsedAmount(s, day)

(* Fault: the new amount is charged in full.                               *)
NewChargeInFull(s, day, newAmount) == newAmount

NewProratedCharge(s, day, newAmount) ==
    Share(newAmount, DaysRemaining(s, day), TotalCycleDays(s))

NetAdjustment(s, day, newAmount) ==
    NewProratedCharge(s, day, newAmount) - UnusedCredit(s, day)

IsUpgrade(s, day, newAmount) == NetAdjustment(s, day, newAmount) > 0

(* rule = [refundEligible, minimumDays, creditNote]: the plan's settings.  *)
RefundEligible(s, day, rule) ==
    rule.refundEligible /\ DaysRemaining(s, day) >= rule.minimumDays

RefundAmount(s, day, rule) ==
    IF RefundEligible(s, day, rule)
    THEN Share(s.amount, DaysRemaining(s, day), TotalCycleDays(s)) ELSE 0

(* What the credit note of an immediate cancellation is made out for.      *)
Credit(s, day, rule) == IF rule.creditNote THEN RefundAmount(s, day, rule) ELSE 0
=============================================================================
