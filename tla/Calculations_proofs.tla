-------------------------- MODULE Calculations_proofs --------------------------
(***************************************************************************)
(* The calculations, for every schedule, date and price, every quotation,  *)
(* every past discount, every offer and every stock: money follows time,   *)
(* stricter rules relax nothing, what is worse never ranks lower, the best *)
(* are offered, and the best split is suggested and handed out in turn.    *)
(***************************************************************************)
EXTENDS Calculations, Sums

-----------------------------------------------------------------------------
(* What is asked is one of the inputs there are.                           *)
InputsFit ==
    /\ schedule \in [start : Int, end : Int, amount : Nat]
    /\ day \in Int
    /\ input # NoInput => /\ question = "risk" => input \in Quotes
                          /\ question = "trouble" => input \in Troubles /\ input.less <= input.more

LEMMA InputsFitFirst == Init => InputsFit
BY CalculationsAssumption
   DEF Init, InitSplit, InitRefund, InitInput, InitOffer, OneDay, InputsFit,
       CalculationsAssumption

LEMMA InputsFitNext == InputsFit /\ [Next]_vars => InputsFit'
<1> SUFFICES ASSUME InputsFit, [Next]_vars PROVE InputsFit'
  OBVIOUS
<1>1. CASE Ask
  BY <1>1 DEF Ask, InputsFit, NoInput
<1>2. CASE AskOn
  BY <1>2, CalculationsAssumption DEF AskOn, InputsFit, CalculationsAssumption, NoInput
<1>3. CASE HandOut
  BY <1>3 DEF HandOut, InputsFit, NoInput
<1>4. CASE Offer
  BY <1>4 DEF Offer, InputsFit, NoInput
<1>5. CASE UNCHANGED vars
  BY <1>5 DEF vars, InputsFit, NoInput
<1> QED
  BY <1>1, <1>2, <1>3, <1>4, <1>5 DEF Next

LEMMA InputsAlwaysFit == Spec => []InputsFit
BY InputsFitFirst, InputsFitNext, PTL DEF Spec

-----------------------------------------------------------------------------
(* Whatever the cycle, its date and its price, refunds fall from the whole *)
(* amount to nothing, and a dearer plan is no downgrade.                   *)
THEOREM RefundsFollowTime == Spec => []MoneyFollowsTime
<1>1. ASSUME InputsFit PROVE MoneyFollowsTime
  <2>1. schedule.start \in Int /\ schedule.end \in Int /\ schedule.amount \in Nat /\ day \in Int
    BY <1>1 DEF InputsFit
  <2>2. Rule.minimumDays = 1 /\ Rule.creditNote /\ Rule.refundEligible
    BY DEF Rule
  <2>3. Credit(schedule, day, Rule) \in 0 .. schedule.amount
    BY <2>1, RefundIsWithin
  <2>4. 1 <= TotalCycleDays(schedule)
    BY <2>1, DaysBounds
  <2>5. /\ Credit(schedule, day + 1, Rule) <= Credit(schedule, day, Rule)
        /\ day <= schedule.start => Credit(schedule, day, Rule) = schedule.amount
        /\ day >= schedule.end /\ schedule.end > schedule.start => Credit(schedule, day, Rule) = 0
    BY <2>1, <2>2, <2>4, RefundShrinks
  <2>6. ASSUME NEW new \in Amounts
        PROVE  /\ new >= schedule.amount => NetAdjustment(schedule, day, new) >= 0
               /\ new <= schedule.amount => NetAdjustment(schedule, day, new) <= 1
    <3>1. new \in Nat
      BY CalculationsAssumption DEF CalculationsAssumption
    <3> QED
      BY <2>1, <3>1, DearerIsNoDowngrade
  <2> QED
    BY <2>3, <2>5, <2>6 DEF MoneyFollowsTime
<1> QED
  BY <1>1, InputsAlwaysFit, PTL

-----------------------------------------------------------------------------
(* Findings and priorities.                                                *)

(* A further distance from the mean of what was given before is no less    *)
(* remarkable.                                                             *)
LEMMA SquaresGrow == ASSUME NEW a \in Nat, NEW b \in Nat, a <= b PROVE a * a <= b * b
<1>1. PICK c \in Nat : b = a + c
  <2>1. b - a \in Nat /\ b = a + (b - a)
    OBVIOUS
  <2> QED
    BY <2>1
<1>2. b * b = a * a + 2 * (a * c) + c * c /\ a * c >= 0 /\ c * c >= 0
  BY <1>1
<1>3. a * a \in Nat /\ a * c \in Nat /\ c * c \in Nat
  OBVIOUS
<1> QED
  BY <1>2, <1>3

Remarkable(k, n, delta, variance) ==
    \/ delta * 2 >= k * 10 * n
    \/ variance > 0 /\ delta >= 0 /\ delta * delta >= k * k * variance

Fires(n, delta, variance) ==
    \/ delta > 10 * n
    \/ variance > 0 /\ delta > 0 /\ delta * delta > 4 * variance

LEMMA FurtherIsNoLess ==
    ASSUME NEW n \in Nat, NEW c \in Int, NEW d \in Int, c <= d, NEW v \in Int
    PROVE  /\ \A k \in Nat : Remarkable(k, n, c, v) => Remarkable(k, n, d, v)
           /\ Fires(n, c, v) => Fires(n, d, v)
<1>1. ASSUME c >= 0 PROVE c * c <= d * d
  <2>1. c \in Nat /\ d \in Nat
    BY <1>1
  <2> QED
    BY <2>1, SquaresGrow
<1>2. PICK p \in Int, q \in Int : p = c * c /\ q = d * d
  OBVIOUS
<1>3. c >= 0 => p <= q
  BY <1>1, <1>2
<1>4. ASSUME NEW k \in Nat, Remarkable(k, n, c, v) PROVE Remarkable(k, n, d, v)
  <2>1. PICK l \in Int, m \in Int : l = k * 10 * n /\ m = k * k * v
    OBVIOUS
  <2>2. \/ c * 2 >= l
        \/ v > 0 /\ c >= 0 /\ p >= m
    BY <1>2, <1>4, <2>1 DEF Remarkable
  <2>3. \/ d * 2 >= l
        \/ v > 0 /\ d >= 0 /\ q >= m
    BY <1>3, <2>2
  <2> QED
    BY <1>2, <2>1, <2>3 DEF Remarkable
<1>5. ASSUME Fires(n, c, v) PROVE Fires(n, d, v)
  <2>1. \/ c > 10 * n
        \/ v > 0 /\ c > 0 /\ p > 4 * v
    BY <1>2, <1>5 DEF Fires
  <2>2. \/ d > 10 * n
        \/ v > 0 /\ d > 0 /\ q > 4 * v
    BY <1>3, <2>1
  <2> QED
    BY <1>2, <2>2 DEF Fires
<1> QED
  BY <1>4, <1>5

LEMMA SamplesAreNumbers ==
    ASSUME NEW h \in Seq(Int)
    PROVE  /\ SumFunction(h) \in Int
           /\ SumFunction([i \in 1 .. Len(h) |-> h[i] * h[i]]) \in Int
<1>1. Len(h) \in Nat /\ DOMAIN h = 1 .. Len(h) /\ \A i \in 1 .. Len(h) : h[i] \in Int
  OBVIOUS
<1>2. IsFiniteSet(1 .. Len(h))
  BY <1>1, FS_Interval
<1>3. SumFunctionOnSet(h, 1 .. Len(h)) \in Int
  BY <1>1, <1>2, SumType
<1>4. PICK g : g = [i \in 1 .. Len(h) |-> h[i] * h[i]]
  OBVIOUS
<1>5. DOMAIN g = 1 .. Len(h) /\ \A i \in 1 .. Len(h) : g[i] \in Int
  BY <1>1, <1>4
<1>6. SumFunctionOnSet(g, 1 .. Len(h)) \in Int
  BY <1>2, <1>5, SumType
<1> QED
  BY <1>1, <1>3, <1>4, <1>5, <1>6 DEF SumFunction

Severities == {0, 2, 3, 4}

LEMMA AnomaliesGrow ==
    ASSUME NEW h \in Seq(Int), NEW a \in Int, NEW b \in Int, a <= b
    PROVE  /\ DiscountAnomaly(a, h) \in Severities /\ DiscountAnomaly(b, h) \in Severities
           /\ DiscountAnomaly(a, h) <= DiscountAnomaly(b, h)
<1>1. PICK n \in Nat : n = Len(h)
  OBVIOUS
<1>2. PICK total \in Int, squares \in Int :
         /\ total = SumFunction(h)
         /\ squares = SumFunction([i \in 1 .. Len(h) |-> h[i] * h[i]])
  BY SamplesAreNumbers
<1>3. PICK c \in Int, d \in Int, v \in Int :
         /\ c = n * a - total /\ d = n * b - total
         /\ v = n * squares - total * total
  OBVIOUS
<1>4. c <= d
  <2>1. n * (b - a) >= 0 /\ n * (b - a) = n * b - n * a
    OBVIOUS
  <2> QED
    BY <1>3, <2>1
<1>5. /\ DiscountAnomaly(a, h) = IF n < 5 \/ ~Fires(n, c, v) THEN 0
                                 ELSE IF Remarkable(5, n, c, v) THEN 4
                                 ELSE IF Remarkable(3, n, c, v) THEN 3 ELSE 2
      /\ DiscountAnomaly(b, h) = IF n < 5 \/ ~Fires(n, d, v) THEN 0
                                 ELSE IF Remarkable(5, n, d, v) THEN 4
                                 ELSE IF Remarkable(3, n, d, v) THEN 3 ELSE 2
  BY <1>1, <1>2, <1>3 DEF DiscountAnomaly, Fires, Remarkable
<1>6. /\ Fires(n, c, v) => Fires(n, d, v)
      /\ Remarkable(5, n, c, v) => Remarkable(5, n, d, v)
      /\ Remarkable(3, n, c, v) => Remarkable(3, n, d, v)
  BY <1>4, FurtherIsNoLess
<1> QED
  BY <1>5, <1>6 DEF Severities

(* So it is with the other indicators.                                     *)
LEMMA OverdueGrows ==
    ASSUME NEW high \in BOOLEAN, NEW a \in Int, NEW b \in Int, a <= b
    PROVE  /\ HighRiskDeal(high, a) \in Severities /\ HighRiskDeal(high, b) \in Severities
           /\ HighRiskDeal(high, a) <= HighRiskDeal(high, b)
<1>1. PICK x \in Severities : x = IF a <= 48 THEN 0
                                  ELSE IF a >= 144 THEN 4 ELSE IF a >= 96 THEN 3 ELSE 2
  BY DEF Severities
<1>2. PICK y \in Severities : y = IF b <= 48 THEN 0
                                  ELSE IF b >= 144 THEN 4 ELSE IF b >= 96 THEN 3 ELSE 2
  BY DEF Severities
<1>3. x <= y
  BY <1>1, <1>2
<1>4. PICK z \in {0, 3} : z = IF high THEN 3 ELSE 0
  OBVIOUS
<1>5. HighRiskDeal(high, a) = Max({x, z}) /\ HighRiskDeal(high, b) = Max({y, z})
  BY <1>1, <1>2, <1>4 DEF HighRiskDeal
<1>6. x \in Int /\ y \in Int /\ z \in Int
  BY DEF Severities
<1>7. Max({x, z}) = IF x >= z THEN x ELSE z
  BY <1>6, MaxOfTwo
<1>8. Max({y, z}) = IF y >= z THEN y ELSE z
  BY <1>6, MaxOfTwo
<1> QED
  BY <1>3, <1>5, <1>7, <1>8 DEF Severities

LEMMA FindingsGrow ==
    ASSUME NEW high \in BOOLEAN, NEW h \in Seq(Int), NEW a \in Int, NEW b \in Int, a <= b
    PROVE  \A f \in 1 .. 4 : /\ Findings(high, h, a)[f] \in Severities
                             /\ Findings(high, h, b)[f] \in Severities
                             /\ Findings(high, h, a)[f] <= Findings(high, h, b)[f]
<1>1. /\ StalledQuotation(FALSE, a) \in Severities /\ StalledQuotation(FALSE, b) \in Severities
      /\ StalledQuotation(FALSE, a) <= StalledQuotation(FALSE, b)
  BY DEF StalledQuotation, Severities
<1>2. /\ DeliverySlippage(a) \in Severities /\ DeliverySlippage(b) \in Severities
      /\ DeliverySlippage(a) <= DeliverySlippage(b)
  BY DEF DeliverySlippage, Severities
<1>3. ASSUME NEW n \in Int
      PROVE  /\ Findings(high, h, n)[1] = StalledQuotation(FALSE, n)
             /\ Findings(high, h, n)[2] = DeliverySlippage(n)
             /\ Findings(high, h, n)[3] = HighRiskDeal(high, n)
             /\ Findings(high, h, n)[4] = DiscountAnomaly(n, h)
  BY DEF Findings
<1>4. ASSUME NEW f \in 1 .. 4 PROVE f = 1 \/ f = 2 \/ f = 3 \/ f = 4
  OBVIOUS
<1>5. /\ HighRiskDeal(high, a) \in Severities /\ HighRiskDeal(high, b) \in Severities
      /\ HighRiskDeal(high, a) <= HighRiskDeal(high, b)
      /\ DiscountAnomaly(a, h) \in Severities /\ DiscountAnomaly(b, h) \in Severities
      /\ DiscountAnomaly(a, h) <= DiscountAnomaly(b, h)
  BY OverdueGrows, AnomaliesGrow
<1> QED
  BY <1>1, <1>2, <1>3, <1>4, <1>5

(* The next severity outweighs all that value and age can add.             *)
LEMMA SeverityOutweighs ==
    ASSUME NEW s \in 0 .. 4, NEW r \in 0 .. 4, s < r, NEW value \in Nat, NEW age \in Nat
    PROVE  ComputePriorityScore(s, value, age) <= ComputePriorityScore(r, 0, 0)
<1>1. PICK v \in Nat, g \in Nat : v = value \div 10000 /\ g = age \div 3
  OBVIOUS
<1>2. Min({15, v}) <= 15 /\ Min({10, g}) <= 10 /\ Min({15, v}) \in Int /\ Min({10, g}) \in Int
  <2>1. Min({15, v}) = IF 15 <= v THEN 15 ELSE v
    BY MaxOfTwo
  <2>2. Min({10, g}) = IF 10 <= g THEN 10 ELSE g
    BY MaxOfTwo
  <2> QED
    BY <2>1, <2>2
<1>3. Min({15, 0}) = 0 /\ Min({10, 0}) = 0 /\ 0 \div 10000 = 0 /\ 0 \div 3 = 0
  BY MaxOfTwo
<1>4. PICK x \in Int, y \in Int : /\ x = 25 * s + Min({15, v}) + Min({10, g})
                                  /\ y = 25 * r
  BY <1>2
<1>5. x <= y
  BY <1>2, <1>4
<1>6. Min({100, x}) <= Min({100, y})
  <2>1. Min({100, x}) = IF 100 <= x THEN 100 ELSE x
    BY MaxOfTwo
  <2>2. Min({100, y}) = IF 100 <= y THEN 100 ELSE y
    BY MaxOfTwo
  <2> QED
    BY <1>5, <2>1, <2>2
<1>7. ComputePriorityScore(s, value, age) = Min({100, x})
  BY <1>1, <1>4 DEF ComputePriorityScore
<1>8. ComputePriorityScore(r, 0, 0) = Min({100, y})
  <2>1. 25 * r + 0 + 0 = y
    BY <1>4
  <2> QED
    BY <1>3, <2>1 DEF ComputePriorityScore
<1> QED
  BY <1>6, <1>7, <1>8

(* Whatever its indicators, its history, its value and its age, a deal     *)
(* that gets worse is reported as no less severe and ranks no lower.       *)
THEOREM WorseRanksHigher == Spec => []WorseNeverRanksLower
<1>1. ASSUME InputsFit, Asked("trouble") PROVE WorseNeverRanksLower
  <2>1. input \in Troubles /\ input.less <= input.more
    BY <1>1 DEF InputsFit, Asked
  <2>2. /\ input.highBand \in BOOLEAN /\ input.history \in Seq(Int)
        /\ input.less \in Int /\ input.more \in Int
        /\ input.value \in Nat /\ input.age \in Nat
    BY <2>1, CalculationsAssumption DEF Troubles, CalculationsAssumption
  <2>3. PICK low, high : /\ low = Findings(input.highBand, input.history, input.less)
                         /\ high = Findings(input.highBand, input.history, input.more)
    OBVIOUS
  <2>4. \A f \in 1 .. 4 : low[f] \in Severities /\ high[f] \in Severities /\ low[f] <= high[f]
    BY <2>1, <2>2, <2>3, FindingsGrow
  <2>5. ASSUME NEW f \in 1 .. 4, NEW g \in 1 .. 4, low[f] < high[g]
        PROVE  ComputePriorityScore(low[f], input.value, input.age)
                 <= ComputePriorityScore(high[g], 0, 0)
    <3>1. low[f] \in 0 .. 4 /\ high[g] \in 0 .. 4
      BY <2>4 DEF Severities
    <3> QED
      BY <2>2, <2>5, <3>1, SeverityOutweighs
  <2> QED
    BY <2>3, <2>4, <2>5 DEF WorseNeverRanksLower
<1>2. ASSUME ~Asked("trouble") PROVE WorseNeverRanksLower
  BY <1>2 DEF WorseNeverRanksLower
<1> QED
  BY <1>1, <1>2, InputsAlwaysFit, PTL

-----------------------------------------------------------------------------
(* Risk.                                                                   *)

(* The same line under ceilings that are no higher.                        *)
Stricter(m, l) ==
    /\ m \in QuoteLine /\ l \in QuoteLine
    /\ m.price = l.price /\ m.cost = l.cost /\ m.discount = l.discount
    /\ m.tier <= l.tier /\ m.category <= l.category

LEMMA LineType ==
    ASSUME NEW l \in QuoteLine
    PROVE  /\ l.price \in Nat /\ l.cost \in Nat /\ l.discount \in 0 .. 20
           /\ l.tier \in Nat /\ l.category \in Nat
<1>1. Ceilings \subseteq Nat
  BY CalculationsAssumption DEF CalculationsAssumption
<1> QED
  BY <1>1 DEF QuoteLine

LEMMA TimesGrows ==
    ASSUME NEW n \in Nat, NEW x \in Nat, NEW y \in Nat, x <= y
    PROVE  n * x \in Nat /\ n * y \in Nat /\ n * x <= n * y
<1>1. PICK z \in Nat : y = x + z
  <2>1. y - x \in Nat /\ y = x + (y - x)
    OBVIOUS
  <2> QED
    BY <2>1
<1>2. n * y = n * x + n * z /\ n * z \in Nat /\ n * x \in Nat
  BY <1>1
<1> QED
  BY <1>2

LEMMA NetType ==
    ASSUME NEW l \in QuoteLine, NEW o \in 0 .. 20
    PROVE  NetBeforeTax(l, o) \in Nat /\ Above(l, o) \in Int /\ Excess(l, o) \in Nat
<1>1. l.price \in Nat /\ l.discount \in 0 .. 20 /\ l.tier \in Int /\ l.category \in Int
  BY LineType
<1>2. PICK a \in Nat, b \in Nat : a = 20 - l.discount /\ b = 20 - o
  <2>1. 20 - l.discount \in Nat /\ 20 - o \in Nat
    BY <1>1
  <2> QED
    BY <2>1
<1>3. PICK k \in Nat : k = Keeps(l.discount, o)
  <2>1. a * b \in Nat
    OBVIOUS
  <2> QED
    BY <1>2, <2>1 DEF Keeps
<1>4. NetBeforeTax(l, o) \in Nat
  <2>1. l.price * k \in Nat
    BY <1>1
  <2> QED
    BY <1>3, <2>1 DEF NetBeforeTax
<1>5. Above(l, o) \in Int
  <2>1. PICK m \in Int : m = ResolveDiscountCeiling(l.tier, l.category)
    BY <1>1, OfTwo DEF ResolveDiscountCeiling
  <2> QED
    BY <1>3, <2>1 DEF Above, CombineDiscounts
<1> QED
  BY <1>4, <1>5, OfTwo DEF Excess

LEMMA StricterLine ==
    ASSUME NEW m, NEW l, Stricter(m, l), NEW o \in 0 .. 20, NEW on
    PROVE  /\ NetBeforeTax(m, o) = NetBeforeTax(l, o) /\ CostTotal(m) = CostTotal(l)
           /\ Excess(l, o) <= Excess(m, o)
           /\ Exceeds(l, o, on) => Exceeds(m, o, on)
<1>1. NetBeforeTax(m, o) = NetBeforeTax(l, o) /\ CostTotal(m) = CostTotal(l)
  BY DEF Stricter, NetBeforeTax, CostTotal
<1>2. /\ m.tier \in Int /\ m.category \in Int /\ l.tier \in Int /\ l.category \in Int
      /\ m.tier <= l.tier /\ m.category <= l.category
  BY LineType DEF Stricter
<1>3. PICK p \in Int, q \in Int : /\ p = ResolveDiscountCeiling(m.tier, m.category)
                                  /\ q = ResolveDiscountCeiling(l.tier, l.category)
                                  /\ p <= q
  <2>1. Min({m.tier, m.category}) = IF m.tier <= m.category THEN m.tier ELSE m.category
    BY <1>2, MaxOfTwo
  <2>2. Min({l.tier, l.category}) = IF l.tier <= l.category THEN l.tier ELSE l.category
    BY <1>2, MaxOfTwo
  <2> QED
    BY <1>2, <2>1, <2>2 DEF ResolveDiscountCeiling
<1>4. PICK x \in Int, y \in Int : x = Above(l, o) /\ y = Above(m, o) /\ x <= y
  <2>1. l \in QuoteLine /\ m \in QuoteLine /\ l.discount = m.discount
    BY DEF Stricter
  <2>2. PICK x \in Int, y \in Int : x = Above(l, o) /\ y = Above(m, o)
    BY <2>1, NetType
  <2>3. PICK d \in Int : d = CombineDiscounts(l.discount, o)
    <3>1. l.discount \in Int /\ o \in Int
      BY <2>1 DEF QuoteLine
    <3> QED
      BY <3>1 DEF CombineDiscounts, Keeps
  <2>4. x = d - 4 * q /\ y = d - 4 * p
    BY <1>3, <2>1, <2>2, <2>3 DEF Above
  <2> QED
    BY <1>3, <2>2, <2>4
<1>5. Excess(l, o) <= Excess(m, o)
  <2>1. Max({0, x}) = IF 0 >= x THEN 0 ELSE x
    BY MaxOfTwo
  <2>2. Max({0, y}) = IF 0 >= y THEN 0 ELSE y
    BY MaxOfTwo
  <2> QED
    BY <1>4, <2>1, <2>2 DEF Excess
<1>6. Exceeds(l, o, on) => Exceeds(m, o, on)
  <2>1. l.discount = m.discount
    BY DEF Stricter
  <2> QED
    BY <1>4, <2>1 DEF Exceeds
<1> QED
  BY <1>1, <1>5, <1>6

(* The parts of a score.                                                   *)
NetOf(ls, o) == [i \in DOMAIN ls |-> NetBeforeTax(ls[i], o)]
CostOf(ls) == [i \in DOMAIN ls |-> CostTotal(ls[i])]
ExcessOf(ls, o) == [i \in DOMAIN ls |-> NetBeforeTax(ls[i], o) * Excess(ls[i], o)]
BreadthOf(ls, o, on) == [i \in DOMAIN ls |-> IF Exceeds(ls[i], o, on) THEN NetBeforeTax(ls[i], o) ELSE 0]
GreatestOf(ls, o) == {Excess(ls[i], o) : i \in DOMAIN ls}
WholeOf(ls, o) == IF QuoteNet(ls, o) = 0 THEN 1 ELSE QuoteNet(ls, o)

Weighted(excess, breadth, greatest, whole, pressure) ==
    40 * excess + 10000 * breadth + 25 * greatest * whole + 4000 * pressure

ScoreIs(ls, o, on) ==
    /\ QuoteNet(ls, o) = SumFunction(NetOf(ls, o))
    /\ ScoreRisk(ls, o, on).top =
         Weighted(SumFunction(ExcessOf(ls, o)), SumFunction(BreadthOf(ls, o, on)),
                  Max(GreatestOf(ls, o)), WholeOf(ls, o), MarginPressure(ls, o))
    /\ ScoreRisk(ls, o, on).bottom = 400 * WholeOf(ls, o)

LEMMA ScoreParts == ASSUME NEW ls, NEW o, NEW on PROVE ScoreIs(ls, o, on)
BY DEF ScoreIs, QuoteNet, ScoreRisk, SumOf, NetOf, ExcessOf, BreadthOf, GreatestOf,
       WholeOf, Weighted

(* A quotation of which every line is the same, its ceilings apart.        *)
AllStricter(ms, ls) ==
    /\ ms \in Seq(QuoteLine) /\ ls \in Seq(QuoteLine) /\ ls # << >>
    /\ DOMAIN ms = DOMAIN ls
    /\ \A i \in DOMAIN ls : Stricter(ms[i], ls[i])

LEMMA ScoreGrows ==
    ASSUME NEW ms, NEW ls, AllStricter(ms, ls), NEW o \in 0 .. 20, NEW on
    PROVE  /\ ScoreRisk(ls, o, on).top \in Int /\ ScoreRisk(ms, o, on).top \in Int
           /\ ScoreRisk(ls, o, on).top <= ScoreRisk(ms, o, on).top
           /\ ScoreRisk(ls, o, on).bottom \in Int
           /\ ScoreRisk(ms, o, on).bottom = ScoreRisk(ls, o, on).bottom
<1>1. PICK D : D = DOMAIN ls /\ D = DOMAIN ms
  BY DEF AllStricter
<1>2. IsFiniteSet(D) /\ D # {}
  <2>1. DOMAIN ls = 1 .. Len(ls) /\ Len(ls) \in Nat /\ Len(ls) # 0
    BY DEF AllStricter
  <2>2. 1 \in D
    <3>1. PICK n \in Nat \ {0} : n = Len(ls)
      BY <2>1
    <3>2. 1 \in 1 .. n
      OBVIOUS
    <3> QED
      BY <1>1, <2>1, <3>1, <3>2
  <2>3. IsFiniteSet(1 .. Len(ls))
    BY <2>1, FS_Interval
  <2> QED
    BY <1>1, <2>1, <2>2, <2>3
<1>3. \A i \in D : ls[i] \in QuoteLine /\ ms[i] \in QuoteLine /\ Stricter(ms[i], ls[i])
  BY <1>1 DEF AllStricter, Stricter
<1>4. \A i \in D : /\ NetBeforeTax(ls[i], o) \in Nat /\ NetBeforeTax(ms[i], o) = NetBeforeTax(ls[i], o)
                   /\ CostTotal(ms[i]) = CostTotal(ls[i]) /\ CostTotal(ls[i]) \in Int
                   /\ Excess(ls[i], o) \in Nat /\ Excess(ms[i], o) \in Nat
                   /\ Excess(ls[i], o) <= Excess(ms[i], o)
                   /\ Exceeds(ls[i], o, on) => Exceeds(ms[i], o, on)
  <2>1. \A i \in D : ls[i].cost \in Nat
    BY <1>3 DEF QuoteLine
  <2> QED
    BY <1>3, <2>1, NetType, StricterLine DEF CostTotal
<1>5. PICK net \in Nat, cost \in Int : /\ net = QuoteNet(ls, o) /\ net = QuoteNet(ms, o)
                                       /\ cost = SumFunction(CostOf(ls))
                                       /\ cost = SumFunction(CostOf(ms))
  <2>1. NetOf(ls, o) = NetOf(ms, o) /\ CostOf(ls) = CostOf(ms)
    BY <1>1, <1>4 DEF NetOf, CostOf
  <2>2. SumFunctionOnSet(NetOf(ls, o), D) \in Nat
    BY <1>1, <1>2, <1>4, SumType DEF NetOf
  <2>3. SumFunctionOnSet(CostOf(ls), D) \in Int
    BY <1>1, <1>2, <1>4, SumType DEF CostOf
  <2>4. DOMAIN NetOf(ls, o) = D /\ DOMAIN CostOf(ls) = D
    BY <1>1 DEF NetOf, CostOf
  <2> QED
    BY <2>1, <2>2, <2>3, <2>4, ScoreParts DEF ScoreIs, SumFunction
<1>6. PICK press \in Int : press = MarginPressure(ls, o) /\ press = MarginPressure(ms, o)
  <2>1. PICK press : press = IF net = 0 THEN 0 ELSE Min({net, Max({0, 5 * cost - 4 * net})})
    OBVIOUS
  <2>2. MarginPressure(ls, o) = press /\ MarginPressure(ms, o) = press
    BY <1>5, <2>1 DEF MarginPressure, SumOf, CostOf
  <2>3. Max({0, 5 * cost - 4 * net}) \in Int
    BY OfTwo
  <2>4. press \in Int
    BY <2>1, <2>3, OfTwo
  <2> QED
    BY <2>2, <2>4
<1>7. PICK e \in Nat, f \in Nat : /\ e = SumFunction(ExcessOf(ls, o)) /\ f = SumFunction(ExcessOf(ms, o))
                                  /\ e <= f
  <2>1. \A i \in D : /\ ExcessOf(ls, o)[i] \in Nat /\ ExcessOf(ms, o)[i] \in Nat
                     /\ ExcessOf(ls, o)[i] <= ExcessOf(ms, o)[i]
    BY <1>1, <1>4, TimesGrows DEF ExcessOf
  <2>2. DOMAIN ExcessOf(ls, o) = D /\ DOMAIN ExcessOf(ms, o) = D
    BY <1>1 DEF ExcessOf
  <2> QED
    BY <1>2, <2>1, <2>2, SumType, SumGrows DEF SumFunction
<1>8. PICK b \in Nat, c \in Nat : /\ b = SumFunction(BreadthOf(ls, o, on)) /\ c = SumFunction(BreadthOf(ms, o, on))
                                  /\ b <= c
  <2>1. \A i \in D : /\ BreadthOf(ls, o, on)[i] \in Nat /\ BreadthOf(ms, o, on)[i] \in Nat
                     /\ BreadthOf(ls, o, on)[i] <= BreadthOf(ms, o, on)[i]
    BY <1>1, <1>4 DEF BreadthOf
  <2>2. DOMAIN BreadthOf(ls, o, on) = D /\ DOMAIN BreadthOf(ms, o, on) = D
    BY <1>1 DEF BreadthOf
  <2> QED
    BY <1>2, <2>1, <2>2, SumType, SumGrows DEF SumFunction
<1>9. PICK g \in Nat, h \in Nat : g = Max(GreatestOf(ls, o)) /\ h = Max(GreatestOf(ms, o)) /\ g <= h
  <2>1. ASSUME NEW S, S \in {GreatestOf(ls, o), GreatestOf(ms, o)}
        PROVE  IsFiniteSet(S) /\ S # {} /\ S \subseteq Nat
    <3>1. PICK u : u = [i \in D |-> Excess(ls[i], o)]
      OBVIOUS
    <3>2. PICK k : k = [i \in D |-> Excess(ms[i], o)]
      OBVIOUS
    <3>3. GreatestOf(ls, o) = {u[i] : i \in D} /\ GreatestOf(ms, o) = {k[i] : i \in D}
      BY <1>1, <3>1, <3>2 DEF GreatestOf
    <3>4. IsFiniteSet({u[i] : i \in D}) /\ IsFiniteSet({k[i] : i \in D})
      <4>1. \A x : IsFiniteSet({x[i] : i \in D})
        <5> TAKE x
        <5>1. PICK X : X = [i \in D |-> x[i]]
          OBVIOUS
        <5>2. X \in [D -> {x[i] : i \in D}]
          BY <5>1
        <5>3. X \in Surjection(D, {x[i] : i \in D})
          BY <5>1, <5>2 DEF Surjection
        <5> QED
          BY <1>2, <5>3, FS_Surjection
      <4> QED
        BY <4>1
    <3>5. \A i \in D : u[i] \in Nat /\ k[i] \in Nat
      BY <1>4, <3>1, <3>2
    <3> QED
      BY <1>2, <2>1, <3>3, <3>4, <3>5
  <2>2. /\ Max(GreatestOf(ls, o)) \in GreatestOf(ls, o)
        /\ \A y \in GreatestOf(ms, o) : Max(GreatestOf(ms, o)) >= y
        /\ Max(GreatestOf(ms, o)) \in Nat
    BY <2>1, MaxMinIsIn
  <2>3. PICK i \in D : Max(GreatestOf(ls, o)) = Excess(ls[i], o)
    BY <1>1, <2>2 DEF GreatestOf
  <2>4. Excess(ms[i], o) \in GreatestOf(ms, o)
    BY <1>1 DEF GreatestOf
  <2> QED
    BY <1>4, <2>2, <2>3, <2>4
<1>10. PICK w \in Nat \ {0} : w = WholeOf(ls, o) /\ w = WholeOf(ms, o)
  BY <1>5 DEF WholeOf
<1>11. 25 * g * w <= 25 * h * w /\ 25 * g * w \in Int /\ 25 * h * w \in Int
  <2>1. PICK x \in Nat, y \in Nat : x = w * g /\ y = w * h /\ x <= y
    BY <1>9, TimesGrows
  <2>2. 25 * g * w = 25 * x /\ 25 * h * w = 25 * y
    BY <2>1
  <2> QED
    BY <2>1, <2>2
<1>12. PICK x \in Int, y \in Int : x = 25 * g * w /\ y = 25 * h * w /\ x <= y
  BY <1>11
<1>13. /\ ScoreRisk(ls, o, on).top = 40 * e + 10000 * b + x + 4000 * press
       /\ ScoreRisk(ms, o, on).top = 40 * f + 10000 * c + y + 4000 * press
       /\ ScoreRisk(ls, o, on).bottom = 400 * w /\ ScoreRisk(ms, o, on).bottom = 400 * w
  <2>1. ScoreIs(ls, o, on) /\ ScoreIs(ms, o, on)
    BY ScoreParts
  <2>2. ScoreRisk(ls, o, on).top = Weighted(e, b, g, w, press)
    BY <1>6, <1>7, <1>8, <1>9, <1>10, <2>1 DEF ScoreIs
  <2>3. ScoreRisk(ms, o, on).top = Weighted(f, c, h, w, press)
    BY <1>6, <1>7, <1>8, <1>9, <1>10, <2>1 DEF ScoreIs
  <2>4. ScoreRisk(ls, o, on).bottom = 400 * w /\ ScoreRisk(ms, o, on).bottom = 400 * w
    BY <1>10, <2>1 DEF ScoreIs
  <2> QED
    BY <1>12, <2>2, <2>3, <2>4 DEF Weighted
<1> QED
  BY <1>7, <1>8, <1>12, <1>13

LEMMA BandGrows ==
    ASSUME NEW ms, NEW ls, AllStricter(ms, ls), NEW o \in 0 .. 20, NEW on
    PROVE  Band(ms, o, on) >= Band(ls, o, on)
<1>1. ASSUME NEW n \in Nat, ReachesScore(ScoreRisk(ls, o, on), n)
      PROVE  ReachesScore(ScoreRisk(ms, o, on), n)
  <2>1. PICK x \in Int, y \in Int, w \in Int :
           /\ x = ScoreRisk(ls, o, on).top /\ y = ScoreRisk(ms, o, on).top /\ x <= y
           /\ w = ScoreRisk(ls, o, on).bottom /\ w = ScoreRisk(ms, o, on).bottom
    BY ScoreGrows
  <2>2. PICK z \in Int : z = n * w
    OBVIOUS
  <2>3. x >= z
    BY <1>1, <2>1, <2>2 DEF ReachesScore
  <2> QED
    BY <2>1, <2>2, <2>3 DEF ReachesScore
<1>2. Violates(ls, o, on) => Violates(ms, o, on)
  BY StricterLine DEF Violates, AllStricter
<1> QED
  BY <1>1, <1>2 DEF Band

(* Whatever the lines of a quotation and their discounts, lowering or      *)
(* configuring a ceiling never lowers its score or its band.               *)
THEOREM StricterIsNoLaxer == Spec => []StricterRulesNeverRelax
<1>1. ASSUME InputsFit, Asked("risk") PROVE StricterRulesNeverRelax
  <2>1. PICK ls, o : ls = input.lines /\ o = input.order
    OBVIOUS
  <2>2. ls \in Seq(QuoteLine) /\ ls # << >> /\ o \in 0 .. 20
    BY <1>1, <2>1, CalculationsAssumption DEF InputsFit, Asked, CalculationsAssumption
  <2>3. ASSUME NEW i \in DOMAIN ls, NEW t \in Ceilings, NEW c \in Ceilings,
               t <= ls[i].tier, c <= ls[i].category
        PROVE  AllStricter([ls EXCEPT ![i].tier = t, ![i].category = c], ls)
    <3>1. PICK ms : ms = [ls EXCEPT ![i].tier = t, ![i].category = c]
      OBVIOUS
    <3>2. PICK l \in QuoteLine : l = ls[i]
      BY <2>2
    <3>3. PICK m : m = [l EXCEPT !.tier = t, !.category = c]
      OBVIOUS
    <3>4. m \in QuoteLine /\ Stricter(m, l)
      <4>1. /\ l = [price |-> l.price, cost |-> l.cost, discount |-> l.discount,
                    tier |-> l.tier, category |-> l.category]
            /\ l.price \in Nat /\ l.cost \in Nat /\ l.discount \in 0 .. 20
        BY DEF QuoteLine
      <4>2. m = [price |-> l.price, cost |-> l.cost, discount |-> l.discount,
                 tier |-> t, category |-> c]
        BY <3>3, <4>1
      <4>3. m \in QuoteLine
        BY <4>1, <4>2 DEF QuoteLine
      <4> QED
        BY <2>3, <3>2, <4>2, <4>3 DEF Stricter
    <3>5. ms = [ls EXCEPT ![i] = m]
      BY <3>1, <3>2, <3>3
    <3>6. \A j \in DOMAIN ls : ls[j] \in QuoteLine /\ Stricter(ls[j], ls[j])
      <4>1. Ceilings \subseteq Nat
        BY CalculationsAssumption DEF CalculationsAssumption
      <4>2. ASSUME NEW n \in QuoteLine PROVE Stricter(n, n)
        <5>1. n.tier \in Ceilings /\ n.category \in Ceilings
          BY DEF QuoteLine
        <5>2. n.tier \in Nat /\ n.category \in Nat
          BY <4>1, <5>1
        <5> QED
          BY <5>2 DEF Stricter
      <4> QED
        BY <2>2, <4>2
    <3>7. ms \in Seq(QuoteLine) /\ DOMAIN ms = DOMAIN ls
      BY <2>2, <3>4, <3>5
    <3>8. \A j \in DOMAIN ls : Stricter(ms[j], ls[j])
      BY <3>2, <3>4, <3>5, <3>6
    <3> QED
      BY <2>2, <3>1, <3>7, <3>8 DEF AllStricter
  <2>4. ASSUME NEW ms, AllStricter(ms, ls), NEW on
        PROVE  Band(ms, o, on) >= Band(ls, o, on) /\ ScoreRisk(ms, o, on).top >= ScoreRisk(ls, o, on).top
    BY <2>2, <2>4, BandGrows, ScoreGrows
  <2>5. ASSUME NEW on, Violates(ls, o, on) PROVE Band(ls, o, on) >= 2
    BY <2>5 DEF Band
  <2> QED
    BY <2>1, <2>3, <2>4, <2>5 DEF StricterRulesNeverRelax
<1>2. ASSUME ~Asked("risk") PROVE StricterRulesNeverRelax
  BY <1>2 DEF StricterRulesNeverRelax
<1> QED
  BY <1>1, <1>2, InputsAlwaysFit, PTL

-----------------------------------------------------------------------------
(* The choice of recommendations.                                          *)
Entry == [score : Int, item : Nat]

Distinct(s) == \A i, j \in DOMAIN s : i # j => s[i] # s[j]

(* An entry stands before another: no entry stands twice before itself, of *)
(* two one does, and what stands before one stands before what follows it. *)
LEMMA BeforeOrders ==
    ASSUME NEW s \in Seq(Entry), NEW i \in DOMAIN s, NEW j \in DOMAIN s
    PROVE  /\ ~Before(s, i, i)
           /\ i # j => Before(s, i, j) \/ Before(s, j, i)
           /\ Before(s, i, j) => s[i].score >= s[j].score
           /\ \A h \in DOMAIN s : Before(s, h, i) /\ Before(s, i, j) => Before(s, h, j)
<1>1. \A n \in DOMAIN s : s[n] \in Entry
  OBVIOUS
<1>2. \A n \in DOMAIN s : s[n].score \in Int /\ n \in Int
  BY <1>1 DEF Entry
<1> QED
  BY <1>2 DEF Before

(* Places are 1 to the length, each taken by one entry, in order.          *)
LEMMA PlacesAre ==
    ASSUME NEW s \in Seq(Entry)
    PROVE  /\ \A i \in DOMAIN s : Place(s, i) \in DOMAIN s
           /\ \A i, j \in DOMAIN s : Before(s, i, j) => Place(s, i) < Place(s, j)
           /\ \A n \in DOMAIN s : \E i \in DOMAIN s : Place(s, i) = n
<1>1. PICK n \in Nat, D \in {DOMAIN s} : D = DOMAIN s /\ n = Len(s) /\ D = 1 .. n
  <2>1. DOMAIN s = 1 .. Len(s) /\ Len(s) \in Nat
    OBVIOUS
  <2> QED
    BY <2>1
<1>2. IsFiniteSet(D) /\ Cardinality(D) = n
  <2>1. 1 \in Int /\ n \in Int
    OBVIOUS
  <2>2. IsFiniteSet(1 .. n) /\ Cardinality(1 .. n) = IF 1 > n THEN 0 ELSE n - 1 + 1
    BY <2>1, FS_Interval
  <2> QED
    BY <1>1, <2>2
<1>3. PICK f : f = [i \in D |-> {j \in D : Before(s, j, i)}]
  OBVIOUS
<1>4. ASSUME NEW i \in D
      PROVE  /\ f[i] \subseteq D /\ i \notin f[i] /\ IsFiniteSet(f[i])
             /\ Cardinality(f[i]) \in 0 .. n - 1
             /\ Place(s, i) = 1 + Cardinality(f[i])
  <2>1. f[i] \subseteq D /\ i \notin f[i]
    BY <1>1, <1>3, BeforeOrders
  <2>2. IsFiniteSet(f[i]) /\ Cardinality(f[i]) \in Nat /\ Cardinality(f[i]) <= n /\ Cardinality(f[i]) # n
    BY <1>2, <2>1, FS_Subset, FS_CardinalityType
  <2>3. Cardinality(f[i]) \in 0 .. n - 1
    BY <2>2
  <2>4. Place(s, i) = 1 + Cardinality(f[i])
    BY <1>1, <1>3 DEF Place
  <2> QED
    BY <2>1, <2>2, <2>3, <2>4
<1>5. ASSUME NEW i \in D, NEW j \in D, Before(s, i, j)
      PROVE  Place(s, i) < Place(s, j)
  <2>1. f[i] \subseteq f[j] /\ i \in f[j]
    BY <1>1, <1>3, <1>5, BeforeOrders
  <2>2. f[i] # f[j]
    BY <1>4, <2>1
  <2>3. /\ Cardinality(f[i]) <= Cardinality(f[j])
        /\ Cardinality(f[i]) # Cardinality(f[j])
    BY <1>4, <2>1, <2>2, FS_Subset
  <2> QED
    BY <1>4, <2>3
<1>6. \A i \in D : Place(s, i) \in D
  BY <1>1, <1>4
<1>7. PICK g : g = [i \in D |-> Place(s, i)]
  OBVIOUS
<1>8. g \in Injection(D, D)
  <2>1. g \in [D -> D]
    BY <1>6, <1>7
  <2>2. ASSUME NEW i \in D, NEW j \in D, i # j PROVE g[i] # g[j]
    <3>1. Before(s, i, j) \/ Before(s, j, i)
      BY <1>1, <2>2, BeforeOrders
    <3>2. g[i] < g[j] \/ g[j] < g[i]
      BY <1>5, <1>7, <3>1
    <3>3. g[i] \in Int /\ g[j] \in Int
      BY <1>1, <2>1
    <3> QED
      BY <3>2, <3>3
  <2> QED
    BY <2>1, <2>2 DEF Injection, IsInjective
<1>9. g \in Surjection(D, D)
  BY <1>2, <1>8, FS_Injection
<1>10. \A m \in D : \E i \in D : Place(s, i) = m
  BY <1>7, <1>9 DEF Surjection
<1> QED
  BY <1>1, <1>5, <1>6, <1>10

(* t has the entries of s, those that score more first.                    *)
Sorts(t, s) ==
    /\ t \in Seq(Entry) /\ Len(t) = Len(s)
    /\ \A n \in DOMAIN t : \E i \in DOMAIN s : t[n] = s[i]
    /\ \A i \in DOMAIN s : \E n \in DOMAIN t : t[n] = s[i]
    /\ \A m, n \in DOMAIN t : m < n => t[m].score >= t[n].score
    /\ Distinct(s) => Distinct(t)

LEMMA DescendingSorts ==
    ASSUME NEW s \in Seq(Entry) PROVE Sorts(Descending(s), s)
<1>1. PICK t : t = Descending(s)
  OBVIOUS
<1>2. PICK n \in Nat, D \in {DOMAIN s} : D = DOMAIN s /\ n = Len(s) /\ D = 1 .. n
  <2>1. DOMAIN s = 1 .. Len(s) /\ Len(s) \in Nat
    OBVIOUS
  <2> QED
    BY <2>1
<1>3. PICK g : g = [m \in D |-> CHOOSE i \in D : Place(s, i) = m]
  OBVIOUS
<1>4. ASSUME NEW m \in D PROVE g[m] \in D /\ Place(s, g[m]) = m
  <2>1. \E i \in D : Place(s, i) = m
    BY <1>2, PlacesAre
  <2> QED
    BY <1>3, <2>1
<1>5. DOMAIN t = D /\ \A m \in D : t[m] = s[g[m]]
  BY <1>1, <1>2, <1>3 DEF Descending
<1>6. \A m \in D : t[m] \in Entry
  <2>1. \A i \in D : s[i] \in Entry
    BY <1>2
  <2> QED
    BY <1>4, <1>5, <2>1
<1>7. t \in Seq(Entry) /\ Len(t) = n
  <2>1. t = [m \in 1 .. n |-> t[m]]
    BY <1>1, <1>2 DEF Descending
  <2>2. t \in [1 .. n -> Entry]
    BY <1>2, <1>6, <2>1
  <2> QED
    BY <2>2
<1>8. ASSUME NEW i \in D PROVE \E m \in D : t[m] = s[i]
  <2>1. PICK m \in D : Place(s, i) = m
    BY <1>2, PlacesAre
  <2>2. g[m] = i
    <3>1. g[m] \in D /\ Place(s, g[m]) = Place(s, i)
      BY <1>4, <2>1
    <3>2. g[m] # i => Before(s, g[m], i) \/ Before(s, i, g[m])
      BY <1>2, <3>1, BeforeOrders
    <3>3. /\ Before(s, g[m], i) => Place(s, g[m]) < Place(s, i)
          /\ Before(s, i, g[m]) => Place(s, i) < Place(s, g[m])
      BY <1>2, <3>1, PlacesAre
    <3>4. Place(s, i) \in Int
      BY <1>2, <2>1
    <3> QED
      BY <3>1, <3>2, <3>3, <3>4
  <2> QED
    BY <1>5, <2>2
<1>9. ASSUME NEW m \in D, NEW k \in D, m < k PROVE g[m] # g[k] /\ t[m].score >= t[k].score
  <2>1. /\ g[m] \in D /\ Place(s, g[m]) = m
        /\ g[k] \in D /\ Place(s, g[k]) = k /\ m \in Int /\ k \in Int
    BY <1>2, <1>4
  <2>2. g[m] # g[k]
    BY <1>9, <2>1
  <2>3. ~Before(s, g[k], g[m])
    BY <1>2, <1>9, <2>1, PlacesAre
  <2>4. Before(s, g[m], g[k])
    BY <1>2, <2>1, <2>2, <2>3, BeforeOrders
  <2>5. s[g[m]].score >= s[g[k]].score
    BY <1>2, <2>1, <2>4, BeforeOrders
  <2> QED
    BY <1>5, <2>2, <2>5
<1>10. ASSUME Distinct(s), NEW m \in D, NEW k \in D, m # k PROVE t[m] # t[k]
  <2>1. m < k \/ k < m
    BY <1>2, <1>10
  <2>2. g[m] # g[k]
    BY <1>9, <2>1
  <2> QED
    BY <1>2, <1>4, <1>5, <1>10, <2>2 DEF Distinct
<1>11. \A m \in D : \E i \in D : t[m] = s[i]
  BY <1>4, <1>5
<1>12. Distinct(s) => Distinct(t)
  BY <1>5, <1>10 DEF Distinct
<1>13. \A m, k \in D : m < k => t[m].score >= t[k].score
  BY <1>9
<1> QED
  BY <1>1, <1>2, <1>5, <1>7, <1>8, <1>11, <1>12, <1>13 DEF Sorts

-----------------------------------------------------------------------------
(* The heap.  An entry that stands in S may score less than its parent.    *)
HeapBut(h, S) == \A i \in DOMAIN h : i > 1 /\ i \notin S => h[Parent(i)].score <= h[i].score

(* What stands below i scores no less than what stands above it.           *)
Bridged(h, i) == i > 1 => \A j \in DOMAIN h : Parent(j) = i => h[Parent(i)].score <= h[j].score

Children(i) == {2 * i, 2 * i + 1}

Exchanged(h, i, j) == [h EXCEPT ![i] = h[j], ![j] = h[i]]

LEMMA ParentIs ==
    /\ \A i \in Nat : i > 1 => Parent(i) \in 1 .. i - 1
    /\ \A i, j \in Nat : Parent(j) = i <=> j \in Children(i)
BY DEF Parent, Children

LEMMA ScoresAre ==
    ASSUME NEW h \in Seq(Entry)
    PROVE  /\ DOMAIN h = 1 .. Len(h) /\ Len(h) \in Nat
           /\ \A i \in DOMAIN h : i \in Nat /\ h[i] \in Entry /\ h[i].score \in Int
<1>1. \A i \in DOMAIN h : h[i] \in Entry
  OBVIOUS
<1> QED
  BY <1>1 DEF Entry

LEMMA RootIsLeast ==
    ASSUME NEW h \in Seq(Entry), HeapBut(h, {})
    PROVE  \A i \in DOMAIN h : h[1].score <= h[i].score
<1>1. PICK G : G = {n \in Nat : \A i \in DOMAIN h : i <= n => h[1].score <= h[i].score}
  OBVIOUS
<1>2. 0 \in G
  BY <1>1
<1>3. ASSUME NEW n \in Nat, n \in G PROVE n + 1 \in G
  <2>1. ASSUME NEW i \in DOMAIN h, i <= n + 1 PROVE h[1].score <= h[i].score
    <3>1. CASE i = 1
      BY <2>1, <3>1, ScoresAre
    <3>2. CASE i # 1
      <4>1. i \in Nat /\ i > 1 /\ i <= Len(h)
        BY <3>2
      <4>2. Parent(i) \in 1 .. i - 1
        BY <4>1, ParentIs
      <4>3. Parent(i) \in DOMAIN h /\ Parent(i) <= n /\ 1 \in DOMAIN h
        BY <2>1, <4>1, <4>2
      <4>4. h[1].score <= h[Parent(i)].score
        BY <1>1, <1>3, <4>3
      <4>5. h[Parent(i)].score <= h[i].score
        BY <4>1 DEF HeapBut
      <4>6. h[1].score \in Int /\ h[Parent(i)].score \in Int /\ h[i].score \in Int
        BY <4>3, ScoresAre
      <4> QED
        BY <4>4, <4>5, <4>6
    <3> QED
      BY <3>1, <3>2
  <2> QED
    BY <1>1, <2>1
<1>4. \A n \in Nat : n \in G
  BY <1>2, <1>3, NatSetInduction
<1>5. ASSUME NEW i \in DOMAIN h PROVE h[1].score <= h[i].score
  <2>1. i \in Nat
    OBVIOUS
  <2> QED
    BY <1>1, <1>4, <2>1
<1> QED
  BY <1>5

LEMMA Exchange ==
    ASSUME NEW h \in Seq(Entry), NEW i \in DOMAIN h, NEW j \in DOMAIN h, i # j,
           NEW g, g = Exchanged(h, i, j)
    PROVE  /\ g \in Seq(Entry) /\ Len(g) = Len(h) /\ DOMAIN g = DOMAIN h
           /\ g[i] = h[j] /\ g[j] = h[i]
           /\ \A m \in DOMAIN h : m # i /\ m # j => g[m] = h[m]
<1>1. h[i] \in Entry /\ h[j] \in Entry
  OBVIOUS
<1> QED
  BY <1>1 DEF Exchanged

(* One turn of bubbleUp, and its end.                                      *)
LEMMA MovesUp ==
    ASSUME NEW h \in Seq(Entry), NEW i \in DOMAIN h, HeapBut(h, {i}), Bridged(h, i),
           i > 1, h[Parent(i)].score > h[i].score,
           NEW g, g = Exchanged(h, i, Parent(i))
    PROVE  HeapBut(g, {Parent(i)}) /\ Bridged(g, Parent(i))
<1>1. PICK q \in Nat : q = Parent(i) /\ q \in 1 .. i - 1
  BY ParentIs
<1>2. q \in DOMAIN h /\ q # i
  BY <1>1
<1>3. /\ g \in Seq(Entry) /\ DOMAIN g = DOMAIN h
      /\ g[i] = h[q] /\ g[q] = h[i] /\ \A m \in DOMAIN h : m # i /\ m # q => g[m] = h[m]
  BY <1>1, <1>2, Exchange
<1>4. h[q].score > h[i].score /\ h[q].score \in Int /\ h[i].score \in Int
  BY <1>1, <1>2, ScoresAre
<1>5. ASSUME NEW m \in DOMAIN h, m > 1, m # q PROVE g[Parent(m)].score <= g[m].score
  <2>1. PICK r \in Nat : r = Parent(m) /\ r \in 1 .. m - 1 /\ m \in Nat
    <3>1. m \in Nat /\ m > 1
      BY <1>5
    <3>2. Parent(m) \in 1 .. m - 1
      BY <3>1, ParentIs
    <3> QED
      BY <3>1, <3>2
  <2>2. r \in DOMAIN h /\ h[r].score \in Int /\ h[m].score \in Int
    BY <2>1, ScoresAre
  <2>3. CASE m = i
    BY <1>1, <1>3, <1>4, <2>1, <2>3
  <2>4. CASE m # i
    <3>1. h[r].score <= h[m].score /\ g[m] = h[m]
      BY <1>3, <1>5, <2>1, <2>4 DEF HeapBut
    <3>2. CASE r = i
      <4>1. h[q].score <= h[m].score
        BY <1>1, <2>1, <3>2 DEF Bridged
      <4> QED
        BY <1>3, <2>1, <3>1, <3>2, <4>1
    <3>3. CASE r = q
      BY <1>3, <1>4, <2>1, <2>2, <3>1, <3>3
    <3>4. CASE r # i /\ r # q
      BY <1>3, <2>1, <2>2, <3>1, <3>4
    <3> QED
      BY <3>2, <3>3, <3>4
  <2> QED
    BY <2>3, <2>4
<1>6. ASSUME q > 1, NEW m \in DOMAIN h, Parent(m) = q PROVE g[Parent(q)].score <= g[m].score
  <2>1. PICK r \in Nat : r = Parent(q) /\ r \in 1 .. q - 1
    BY <1>1, <1>6, ParentIs
  <2>2. r \in DOMAIN h /\ r # q /\ r # i /\ h[r].score \in Int
    <3>1. r \in DOMAIN h /\ r # q /\ r # i
      BY <1>1, <2>1
    <3> QED
      BY <3>1, ScoresAre
  <2>3. h[r].score <= h[q].score /\ g[r] = h[r]
    BY <1>2, <1>3, <1>6, <2>1, <2>2 DEF HeapBut
  <2>4. CASE m = i
    BY <1>3, <2>1, <2>3, <2>4
  <2>5. CASE m # i
    <3>1. m # q /\ m > 1 /\ h[m].score \in Int
      <4>1. q \in Nat /\ m \in Nat /\ m \in Children(q)
        BY <1>6, ParentIs
      <4>2. m # q /\ m > 1
        BY <1>1, <4>1 DEF Children
      <4> QED
        BY <4>2, ScoresAre
    <3>2. h[q].score <= h[m].score /\ g[m] = h[m]
      BY <1>3, <1>6, <2>5, <3>1 DEF HeapBut
    <3> QED
      BY <1>4, <2>1, <2>2, <2>3, <3>1, <3>2
  <2> QED
    BY <2>4, <2>5
<1>7. HeapBut(g, {q})
  BY <1>3, <1>5 DEF HeapBut
<1>8. Bridged(g, q)
  BY <1>3, <1>6 DEF Bridged
<1> QED
  BY <1>1, <1>7, <1>8

LEMMA StopsUp ==
    ASSUME NEW h \in Seq(Entry), NEW i \in DOMAIN h, HeapBut(h, {i}),
           i > 1 => ~(h[Parent(i)].score > h[i].score)
    PROVE  HeapBut(h, {})
<1>1. ASSUME i > 1 PROVE h[Parent(i)].score <= h[i].score
  <2>1. Parent(i) \in 1 .. i - 1
    BY <1>1, ParentIs
  <2>2. Parent(i) \in DOMAIN h
    BY <2>1
  <2>3. h[Parent(i)].score \in Int /\ h[i].score \in Int
    BY <2>2, ScoresAre
  <2> QED
    BY <1>1, <2>3
<1> QED
  BY <1>1 DEF HeapBut

(* One turn of bubbleDown, and its end.                                    *)
LEMMA MovesDown ==
    ASSUME NEW h \in Seq(Entry), NEW i \in DOMAIN h, HeapBut(h, Children(i)), Bridged(h, i),
           NEW c \in Children(i), c \in DOMAIN h, h[c].score < h[i].score,
           \A d \in Children(i) : d \in DOMAIN h /\ h[d].score < h[i].score
                                    => h[c].score <= h[d].score,
           NEW g, g = Exchanged(h, i, c)
    PROVE  HeapBut(g, Children(c)) /\ Bridged(g, c)
<1>1. i \in Nat /\ c \in Nat /\ i >= 1 /\ c > i /\ Parent(c) = i /\ c # i
  <2>1. i \in Nat /\ c \in Nat /\ i >= 1
    OBVIOUS
  <2> QED
    BY <2>1, ParentIs DEF Children
<1>2. /\ g \in Seq(Entry) /\ DOMAIN g = DOMAIN h
      /\ g[i] = h[c] /\ g[c] = h[i] /\ \A m \in DOMAIN h : m # i /\ m # c => g[m] = h[m]
  BY <1>1, Exchange
<1>3. h[c].score \in Int /\ h[i].score \in Int
  BY ScoresAre
<1>4. ASSUME NEW m \in DOMAIN h, m > 1, m \notin Children(c) PROVE g[Parent(m)].score <= g[m].score
  <2>1. PICK r \in Nat : r = Parent(m) /\ r \in 1 .. m - 1 /\ m \in Nat
    <3>1. m \in Nat /\ m > 1
      BY <1>4
    <3>2. Parent(m) \in 1 .. m - 1
      BY <3>1, ParentIs
    <3> QED
      BY <3>1, <3>2
  <2>2. r \in DOMAIN h /\ h[r].score \in Int /\ h[m].score \in Int
    BY <2>1, ScoresAre
  <2>3. r # c
    BY <1>1, <1>4, <2>1, ParentIs
  <2>4. CASE m = c
    BY <1>1, <1>2, <1>3, <2>4
  <2>5. CASE m # c /\ r = i
    <3>1. m \in Children(i) /\ m # i
      <4>1. m \in Children(i)
        BY <1>1, <2>1, <2>5, ParentIs
      <4> QED
        BY <2>1, <2>5, <4>1
    <3>2. h[c].score <= h[m].score
      <4>1. CASE h[m].score < h[i].score
        BY <3>1, <4>1
      <4>2. CASE ~(h[m].score < h[i].score)
        BY <1>3, <2>2, <4>2
      <4> QED
        BY <4>1, <4>2
    <3> QED
      BY <1>2, <2>1, <2>5, <3>1, <3>2
  <2>6. CASE m # c /\ r # i /\ m = i
    <3>1. h[r].score <= h[c].score
      BY <1>1, <2>1, <2>6 DEF Bridged
    <3> QED
      BY <1>2, <2>1, <2>2, <2>3, <2>6, <3>1
  <2>7. CASE m # c /\ r # i /\ m # i
    <3>1. m \notin Children(i)
      BY <1>1, <2>1, <2>7, ParentIs
    <3>2. h[r].score <= h[m].score
      BY <1>4, <2>1, <3>1 DEF HeapBut
    <3> QED
      BY <1>2, <2>1, <2>2, <2>3, <2>7, <3>2
  <2> QED
    BY <2>4, <2>5, <2>6, <2>7
<1>5. ASSUME NEW m \in DOMAIN h, Parent(m) = c PROVE g[Parent(c)].score <= g[m].score
  <2>1. m \in Nat /\ m \in Children(c)
    BY <1>1, <1>5, ParentIs
  <2>2. m # i /\ m # c /\ m > 1 /\ m \notin Children(i)
    BY <1>1, <2>1 DEF Children
  <2>3. h[c].score <= h[m].score
    BY <1>5, <2>2 DEF HeapBut
  <2> QED
    BY <1>1, <1>2, <2>2, <2>3
<1> QED
  BY <1>2, <1>4, <1>5 DEF HeapBut, Bridged

LEMMA StopsDown ==
    ASSUME NEW h \in Seq(Entry), NEW i \in DOMAIN h, HeapBut(h, Children(i)),
           \A c \in Children(i) : c \in DOMAIN h => ~(h[c].score < h[i].score)
    PROVE  HeapBut(h, {})
<1>1. ASSUME NEW m \in DOMAIN h, m > 1 PROVE h[Parent(m)].score <= h[m].score
  <2>1. CASE m \in Children(i)
    <3>1. Parent(m) = i /\ h[m].score \in Int /\ h[i].score \in Int
      <4>1. m \in Nat /\ i \in Nat
        OBVIOUS
      <4> QED
        BY <2>1, <4>1, ParentIs, ScoresAre
    <3> QED
      BY <2>1, <3>1
  <2>2. CASE m \notin Children(i)
    BY <1>1, <2>2 DEF HeapBut
  <2> QED
    BY <2>1, <2>2
<1> QED
  BY <1>1 DEF HeapBut

-----------------------------------------------------------------------------
(* What the heap holds: the best k of the first n entries of s.            *)
Has(h, e) == \E i \in DOMAIN h : h[i] = e

NoneBelow(h, e) == \A i \in DOMAIN h : e.score <= h[i].score

BestOf(h, s, n, k) ==
    /\ h \in Seq(Entry) /\ Distinct(h)
    /\ Len(h) = IF n <= k THEN n ELSE k
    /\ \A i \in DOMAIN h : \E m \in 1 .. n : h[i] = s[m]
    /\ \A m \in 1 .. n : Has(h, s[m]) \/ (n > k /\ NoneBelow(h, s[m]))

LEMMA ExchangeKeeps ==
    ASSUME NEW s, NEW n \in Nat, NEW k \in Nat, NEW h, BestOf(h, s, n, k),
           NEW i \in DOMAIN h, NEW j \in DOMAIN h, i # j, NEW g, g = Exchanged(h, i, j)
    PROVE  BestOf(g, s, n, k)
<1>1. /\ h \in Seq(Entry) /\ g \in Seq(Entry) /\ Len(g) = Len(h) /\ DOMAIN g = DOMAIN h
      /\ g[i] = h[j] /\ g[j] = h[i]
      /\ \A m \in DOMAIN h : m # i /\ m # j => g[m] = h[m]
  BY Exchange DEF BestOf
<1>2. Distinct(g)
  <2>1. Distinct(h)
    BY DEF BestOf
  <2>2. ASSUME NEW a \in DOMAIN h, NEW b \in DOMAIN h, a # b PROVE g[a] # g[b]
    <3>1. PICK c \in DOMAIN h : g[a] = h[c] /\ c = IF a = i THEN j ELSE IF a = j THEN i ELSE a
      BY <1>1
    <3>2. PICK d \in DOMAIN h : g[b] = h[d] /\ d = IF b = i THEN j ELSE IF b = j THEN i ELSE b
      BY <1>1
    <3>3. c # d
      BY <2>2, <3>1, <3>2
    <3> QED
      BY <2>1, <3>1, <3>2, <3>3 DEF Distinct
  <2> QED
    BY <1>1, <2>2 DEF Distinct
<1>3. \A a \in DOMAIN g : \E b \in DOMAIN h : g[a] = h[b]
  BY <1>1
<1>4. \A b \in DOMAIN h : \E a \in DOMAIN g : g[a] = h[b]
  BY <1>1
<1>5. \A a \in DOMAIN g : \E m \in 1 .. n : g[a] = s[m]
  BY <1>3 DEF BestOf
<1>6. ASSUME NEW m \in 1 .. n PROVE Has(g, s[m]) \/ (n > k /\ NoneBelow(g, s[m]))
  <2>1. CASE Has(h, s[m])
    <3>1. PICK b \in DOMAIN h : h[b] = s[m]
      BY <2>1 DEF Has
    <3>2. PICK a \in DOMAIN g : g[a] = s[m]
      BY <1>4, <3>1
    <3>3. Has(g, s[m])
      BY <3>2 DEF Has
    <3> QED
      BY <3>3
  <2>2. CASE n > k /\ NoneBelow(h, s[m])
    BY <1>3, <2>2 DEF NoneBelow
  <2> QED
    BY <2>1, <2>2 DEF BestOf
<1> QED
  BY <1>1, <1>2, <1>5, <1>6 DEF BestOf

(* The next entry, with room for it.                                       *)
LEMMA PushesOn ==
    ASSUME NEW s \in Seq(Entry), Distinct(s), NEW n \in Nat, n + 1 \in DOMAIN s, NEW k \in Nat,
           NEW h, BestOf(h, s, n, k), Len(h) < k,
           NEW g, g = Append(h, s[n + 1])
    PROVE  BestOf(g, s, n + 1, k)
<1>1. h \in Seq(Entry) /\ s[n + 1] \in Entry /\ Len(h) \in Nat
  BY DEF BestOf
<1>2. n < k /\ Len(h) = n
  BY <1>1 DEF BestOf
<1>3. /\ g \in Seq(Entry) /\ Len(g) = n + 1 /\ DOMAIN g = 1 .. n + 1
      /\ g[n + 1] = s[n + 1] /\ \A i \in 1 .. n : g[i] = h[i]
      /\ DOMAIN h = 1 .. n
  BY <1>1, <1>2
<1>4. ASSUME NEW i \in 1 .. n PROVE h[i] # s[n + 1]
  <2>1. PICK m \in 1 .. n : h[i] = s[m]
    BY <1>3 DEF BestOf
  <2>2. m \in DOMAIN s /\ m # n + 1
    <3>1. DOMAIN s = 1 .. Len(s) /\ Len(s) \in Nat
      OBVIOUS
    <3> QED
      BY <3>1
  <2> QED
    BY <2>1, <2>2 DEF Distinct
<1>5. Distinct(g)
  <2>1. Distinct(h)
    BY DEF BestOf
  <2>2. ASSUME NEW a \in 1 .. n + 1, NEW b \in 1 .. n + 1, a # b PROVE g[a] # g[b]
    <3>0. (a \in 1 .. n \/ a = n + 1) /\ (b \in 1 .. n \/ b = n + 1)
      OBVIOUS
    <3>1. CASE a \in 1 .. n /\ b \in 1 .. n
      BY <1>3, <2>1, <2>2, <3>1 DEF Distinct
    <3>2. CASE a = n + 1
      <4>1. b \in 1 .. n
        BY <2>2, <3>2
      <4> QED
        BY <1>3, <1>4, <3>2, <4>1
    <3>3. CASE b = n + 1
      <4>1. a \in 1 .. n
        BY <2>2, <3>3
      <4> QED
        BY <1>3, <1>4, <3>3, <4>1
    <3> QED
      BY <3>0, <3>1, <3>2, <3>3
  <2> QED
    BY <1>3, <2>2 DEF Distinct
<1>6. ASSUME NEW i \in DOMAIN g PROVE \E m \in 1 .. n + 1 : g[i] = s[m]
  <2>1. CASE i = n + 1
    BY <1>3, <2>1
  <2>2. CASE i # n + 1
    <3>1. i \in 1 .. n
      BY <1>3, <2>2
    <3>2. PICK m \in 1 .. n : h[i] = s[m]
      BY <1>3, <3>1 DEF BestOf
    <3> QED
      BY <1>3, <3>1, <3>2
  <2> QED
    BY <2>1, <2>2
<1>7. ASSUME NEW m \in 1 .. n + 1 PROVE Has(g, s[m])
  <2>1. CASE m = n + 1
    BY <1>3, <2>1 DEF Has
  <2>2. CASE m # n + 1
    <3>1. m \in 1 .. n
      BY <2>2
    <3>2. Has(h, s[m])
      BY <1>2, <3>1 DEF BestOf
    <3>3. PICK i \in 1 .. n : h[i] = s[m]
      BY <1>3, <3>2 DEF Has
    <3>4. i \in DOMAIN g /\ g[i] = s[m]
      BY <1>3, <3>3
    <3> QED
      BY <3>4 DEF Has
  <2> QED
    BY <2>1, <2>2
<1>8. Len(g) = IF n + 1 <= k THEN n + 1 ELSE k
  BY <1>2, <1>3
<1>9. \A m \in 1 .. n + 1 : Has(g, s[m]) \/ (n + 1 > k /\ NoneBelow(g, s[m]))
  <2>1. ASSUME NEW m \in 1 .. n + 1 PROVE Has(g, s[m]) \/ (n + 1 > k /\ NoneBelow(g, s[m]))
    <3>1. Has(g, s[m])
      BY <1>7
    <3> QED
      BY <3>1
  <2> QED
    BY <2>1
<1> QED
  BY <1>3, <1>5, <1>6, <1>8, <1>9 DEF BestOf

(* No room, and the entry scores no more than the least.                   *)
LEMMA PassesOver ==
    ASSUME NEW s \in Seq(Entry), NEW n \in Nat, n + 1 \in DOMAIN s, NEW k \in Nat \ {0},
           NEW h, BestOf(h, s, n, k), HeapBut(h, {}), Len(h) >= k,
           s[n + 1].score <= h[1].score
    PROVE  BestOf(h, s, n + 1, k)
<1>1. h \in Seq(Entry) /\ s[n + 1] \in Entry /\ Len(h) \in Nat
  BY DEF BestOf
<1>2. n >= k /\ Len(h) = k /\ n + 1 > k
  BY <1>1 DEF BestOf
<1>3. NoneBelow(h, s[n + 1])
  <2>1. ASSUME NEW i \in DOMAIN h PROVE s[n + 1].score <= h[i].score
    <3>1. h[1].score <= h[i].score
      BY <1>1, RootIsLeast
    <3>2. h[i].score \in Int /\ h[1].score \in Int /\ s[n + 1].score \in Int
      <4>1. 1 \in DOMAIN h
        BY <1>1, <1>2
      <4> QED
        BY <1>1, <4>1, ScoresAre DEF Entry
    <3> QED
      BY <3>1, <3>2
  <2> QED
    BY <2>1 DEF NoneBelow
<1>4. ASSUME NEW m \in 1 .. n + 1 PROVE Has(h, s[m]) \/ (n + 1 > k /\ NoneBelow(h, s[m]))
  <2>1. CASE m = n + 1
    BY <1>2, <1>3, <2>1
  <2>2. CASE m # n + 1
    <3>1. m \in 1 .. n
      BY <2>2
    <3> QED
      BY <1>2, <3>1 DEF BestOf
  <2> QED
    BY <2>1, <2>2
<1>5. \A i \in DOMAIN h : \E m \in 1 .. n + 1 : h[i] = s[m]
  <2>1. \A i \in DOMAIN h : \E m \in 1 .. n : h[i] = s[m]
    BY DEF BestOf
  <2> QED
    BY <2>1
<1>6. Len(h) = IF n + 1 <= k THEN n + 1 ELSE k
  BY <1>2
<1> QED
  BY <1>4, <1>5, <1>6 DEF BestOf

(* No room, and the entry takes the place of the least.                    *)
LEMMA TakesOver ==
    ASSUME NEW s \in Seq(Entry), Distinct(s), NEW n \in Nat, n + 1 \in DOMAIN s, NEW k \in Nat \ {0},
           NEW h, BestOf(h, s, n, k), HeapBut(h, {}), Len(h) >= k,
           s[n + 1].score > h[1].score,
           NEW g, g = [h EXCEPT ![1] = s[n + 1]]
    PROVE  BestOf(g, s, n + 1, k) /\ HeapBut(g, Children(1)) /\ Bridged(g, 1) /\ 1 \in DOMAIN g
<1>1. h \in Seq(Entry) /\ s[n + 1] \in Entry /\ Len(h) \in Nat /\ Distinct(h)
  BY DEF BestOf
<1>2. n >= k /\ Len(h) = k /\ n + 1 > k /\ 1 \in DOMAIN h
  BY <1>1 DEF BestOf
<1>3. /\ g \in Seq(Entry) /\ Len(g) = k /\ DOMAIN g = DOMAIN h
      /\ g[1] = s[n + 1] /\ \A i \in DOMAIN h : i # 1 => g[i] = h[i]
  BY <1>1, <1>2
<1>4. ASSUME NEW i \in DOMAIN h PROVE \E m \in 1 .. n : h[i] = s[m] /\ m \in DOMAIN s /\ m # n + 1
  <2>1. PICK m \in 1 .. n : h[i] = s[m]
    BY DEF BestOf
  <2>2. DOMAIN s = 1 .. Len(s) /\ Len(s) \in Nat
    OBVIOUS
  <2> QED
    BY <2>1, <2>2
<1>5. \A i \in DOMAIN h : h[i] # s[n + 1]
  BY <1>4 DEF Distinct
<1>6. Distinct(g)
  BY <1>1, <1>3, <1>5 DEF Distinct
<1>7. ASSUME NEW i \in DOMAIN g PROVE \E m \in 1 .. n + 1 : g[i] = s[m]
  <2>1. CASE i = 1
    BY <1>3, <2>1
  <2>2. CASE i # 1
    <3>1. PICK m \in 1 .. n : h[i] = s[m]
      BY <1>3, <1>4
    <3> QED
      BY <1>3, <2>2, <3>1
  <2> QED
    BY <2>1, <2>2
<1>8. \A i \in DOMAIN h : h[1].score <= h[i].score
  BY <1>1, RootIsLeast
<1>9. s[n + 1].score \in Int /\ \A i \in DOMAIN h : h[i].score \in Int
  BY <1>1, ScoresAre DEF Entry
<1>10. NoneBelow(g, h[1])
  <2>1. ASSUME NEW i \in DOMAIN g PROVE h[1].score <= g[i].score
    <3>1. CASE i = 1
      BY <1>2, <1>3, <1>9, <3>1
    <3>2. CASE i # 1
      BY <1>3, <1>8, <3>2
    <3> QED
      BY <3>1, <3>2
  <2> QED
    BY <2>1 DEF NoneBelow
<1>11. ASSUME NEW m \in 1 .. n + 1 PROVE Has(g, s[m]) \/ (n + 1 > k /\ NoneBelow(g, s[m]))
  <2>1. CASE m = n + 1
    <3>1. 1 \in DOMAIN g /\ g[1] = s[m]
      BY <1>2, <1>3, <2>1
    <3>2. Has(g, s[m])
      BY <3>1 DEF Has
    <3> QED
      BY <3>2
  <2>2. CASE m # n + 1
    <3>1. m \in 1 .. n /\ s[m] \in Entry
      <4>1. DOMAIN s = 1 .. Len(s) /\ Len(s) \in Nat
        OBVIOUS
      <4> QED
        BY <2>2, <4>1
    <3>2. CASE Has(h, s[m])
      <4>1. PICK i \in DOMAIN h : h[i] = s[m]
        BY <3>2 DEF Has
      <4>2. CASE i = 1
        BY <1>2, <1>10, <4>1, <4>2
      <4>3. CASE i # 1
        <5>1. i \in DOMAIN g /\ g[i] = s[m]
          BY <1>3, <4>1, <4>3
        <5>2. Has(g, s[m])
          BY <5>1 DEF Has
        <5> QED
          BY <5>2
      <4> QED
        BY <4>2, <4>3
    <3>3. CASE NoneBelow(h, s[m])
      <4>1. s[m].score <= h[1].score /\ s[m].score \in Int /\ h[1].score \in Int
        BY <1>2, <1>9, <3>1, <3>3 DEF NoneBelow, Entry
      <4>2. ASSUME NEW i \in DOMAIN g PROVE s[m].score <= g[i].score
        <5>1. g[i].score \in Int /\ h[1].score <= g[i].score
          BY <1>3, <1>9, <1>10 DEF NoneBelow
        <5> QED
          BY <4>1, <5>1
      <4> QED
        BY <1>2, <4>2 DEF NoneBelow
    <3> QED
      BY <3>1, <3>2, <3>3 DEF BestOf
  <2> QED
    BY <2>1, <2>2
<1>12. HeapBut(g, Children(1))
  <2>1. ASSUME NEW i \in DOMAIN g, i > 1, i \notin Children(1) PROVE g[Parent(i)].score <= g[i].score
    <3>1. i \in Nat /\ 1 \in Nat
      BY <1>3, <1>1
    <3>2. Parent(i) \in 1 .. i - 1 /\ Parent(i) # 1
      BY <2>1, <3>1, ParentIs
    <3>3. Parent(i) \in DOMAIN h
      BY <1>1, <1>3, <3>1, <3>2
    <3>4. h[Parent(i)].score <= h[i].score
      BY <1>3, <2>1 DEF HeapBut
    <3> QED
      BY <1>3, <2>1, <3>2, <3>3, <3>4
  <2> QED
    BY <2>1 DEF HeapBut
<1>13. Bridged(g, 1)
  BY DEF Bridged
<1>14. Len(g) = IF n + 1 <= k THEN n + 1 ELSE k
  BY <1>2, <1>3
<1> QED
  BY <1>2, <1>3, <1>6, <1>7, <1>11, <1>12, <1>13, <1>14 DEF BestOf

(* An entry at the end may score less than its parent, and has no child.   *)
LEMMA AppendedHeap ==
    ASSUME NEW h \in Seq(Entry), HeapBut(h, {}), NEW e \in Entry,
           NEW g, g = Append(h, e), NEW n \in Nat, n = Len(h) + 1
    PROVE  HeapBut(g, {n}) /\ Bridged(g, n) /\ n \in DOMAIN g
<1>1. /\ g \in Seq(Entry) /\ DOMAIN g = 1 .. n /\ DOMAIN h = 1 .. Len(h) /\ Len(h) \in Nat
      /\ \A i \in DOMAIN h : g[i] = h[i]
  OBVIOUS
<1>2. ASSUME NEW i \in DOMAIN g, i > 1, i # n PROVE g[Parent(i)].score <= g[i].score
  <2>1. i \in Nat /\ i \in DOMAIN h
    BY <1>1, <1>2
  <2>2. Parent(i) \in 1 .. i - 1
    BY <1>2, <2>1, ParentIs
  <2>3. Parent(i) \in DOMAIN h
    BY <1>1, <2>1, <2>2
  <2>4. h[Parent(i)].score <= h[i].score
    BY <1>2, <2>1 DEF HeapBut
  <2> QED
    BY <1>1, <2>1, <2>3, <2>4
<1>3. ASSUME NEW i \in DOMAIN g, Parent(i) = n PROVE FALSE
  <2>1. i \in Nat /\ i <= n /\ n >= 1
    BY <1>1
  <2>2. i \in Children(n)
    BY <1>3, <2>1, ParentIs
  <2> QED
    BY <2>1, <2>2 DEF Children
<1>4. n \in DOMAIN g
  BY <1>1
<1> QED
  BY <1>2, <1>3, <1>4 DEF HeapBut, Bridged

-----------------------------------------------------------------------------
(* What a selection has found, sorted, is what the code returns.           *)
Falls(h) == \A i, j \in DOMAIN h : i < j => h[i].score >= h[j].score

LEMMA HeapSorted ==
    ASSUME NEW s, NEW n \in Nat, NEW k \in Nat, NEW h, BestOf(h, s, n, k),
           NEW t, t = Descending(h)
    PROVE  BestOf(t, s, n, k) /\ Falls(t)
<1>1. h \in Seq(Entry) /\ Sorts(t, h) /\ Distinct(h)
  BY DescendingSorts DEF BestOf
<1>2. /\ t \in Seq(Entry) /\ Len(t) = Len(h) /\ Distinct(t) /\ Falls(t)
      /\ \A a \in DOMAIN t : \E i \in DOMAIN h : t[a] = h[i]
      /\ \A i \in DOMAIN h : \E a \in DOMAIN t : t[a] = h[i]
  BY <1>1 DEF Sorts, Falls
<1>3. \A a \in DOMAIN t : \E m \in 1 .. n : t[a] = s[m]
  <2>1. \A i \in DOMAIN h : \E m \in 1 .. n : h[i] = s[m]
    BY DEF BestOf
  <2> QED
    BY <1>2, <2>1
<1>4. ASSUME NEW m \in 1 .. n PROVE Has(t, s[m]) \/ (n > k /\ NoneBelow(t, s[m]))
  <2>1. CASE Has(h, s[m])
    <3>1. PICK i \in DOMAIN h : h[i] = s[m]
      BY <2>1 DEF Has
    <3>2. PICK a \in DOMAIN t : t[a] = s[m]
      BY <1>2, <3>1
    <3>3. Has(t, s[m])
      BY <3>2 DEF Has
    <3> QED
      BY <3>3
  <2>2. CASE n > k /\ NoneBelow(h, s[m])
    BY <1>2, <2>2 DEF NoneBelow
  <2> QED
    BY <2>1, <2>2 DEF BestOf
<1> QED
  BY <1>2, <1>3, <1>4 DEF BestOf

LEMMA PrefixIs ==
    ASSUME NEW d \in Seq(Entry), NEW b \in 0 .. Len(d), NEW t, t = SubSeq(d, 1, b)
    PROVE  /\ t \in Seq(Entry) /\ Len(t) = b /\ DOMAIN t = 1 .. b
           /\ \A i \in 1 .. b : t[i] = d[i]
<1>1. t \in Seq(Entry) /\ DOMAIN t = 1 .. Len(t)
  BY PrefixOf
<1>2. CASE b = 0
  <2>1. t = << >>
    BY <1>2, SubSeqEmpty
  <2> QED
    BY <1>2, <2>1
<1>3. CASE b # 0
  <2>1. b \in 1 .. Len(d) /\ \A i \in 1 .. b : d[i] \in Entry
    BY <1>3
  <2> QED
    BY <1>1, <2>1, SubSeqProperties
<1> QED
  BY <1>1, <1>2, <1>3

LEMMA AllSorted ==
    ASSUME NEW s \in Seq(Entry), Distinct(s), NEW k \in Nat
    PROVE  LET t == SubSeq(Descending(s), 1, Min({k, Len(s)}))
           IN  BestOf(t, s, Len(s), k) /\ Falls(t)
<1>t. PICK t : t = SubSeq(Descending(s), 1, Min({k, Len(s)}))
  OBVIOUS
<1>d. PICK d : d = Descending(s)
  OBVIOUS
<1>n. PICK n \in Nat : n = Len(s)
  OBVIOUS
<1>1. /\ n = Len(s) /\ d = Descending(s) /\ Sorts(d, s) /\ d \in Seq(Entry)
      /\ DOMAIN s = 1 .. n /\ DOMAIN d = 1 .. n /\ Len(d) = n
  <2>1. Sorts(d, s)
    BY <1>d, DescendingSorts
  <2>2. d \in Seq(Entry) /\ Len(d) = n
    BY <1>n, <2>1 DEF Sorts
  <2> QED
    BY <1>d, <1>n, <2>1, <2>2
<1>2. PICK b \in Nat : b = Min({k, Len(s)}) /\ b <= n /\ (n <= k => b = n) /\ (n > k => b = k)
  <2>1. k \in Int /\ Len(s) \in Int
    OBVIOUS
  <2>2. Min({k, Len(s)}) = IF k <= Len(s) THEN k ELSE Len(s)
    BY <2>1, MaxOfTwo
  <2>3. PICK b \in Nat : b = Min({k, Len(s)})
    BY <1>1, <2>2
  <2>4. b = IF k <= n THEN k ELSE n
    BY <1>1, <2>2, <2>3
  <2>5. b <= n /\ (n <= k => b = n) /\ (n > k => b = k)
    BY <2>4
  <2> QED
    BY <2>3, <2>5
<1>3. t \in Seq(Entry) /\ Len(t) = b /\ DOMAIN t = 1 .. b /\ \A i \in 1 .. b : t[i] = d[i]
  <2>1. t = SubSeq(d, 1, b) /\ d \in Seq(Entry) /\ b \in 0 .. Len(d)
    BY <1>t, <1>1, <1>2
  <2> QED
    BY <2>1, PrefixIs
<1>b. b <= n /\ (n <= k => b = n) /\ (n > k => b = k)
  BY <1>2
<1>4. /\ Distinct(s) /\ Distinct(d) /\ \A i, j \in 1 .. n : i < j => d[i].score >= d[j].score
      /\ \A i \in 1 .. n : \E m \in 1 .. n : d[i] = s[m]
      /\ \A m \in 1 .. n : \E i \in 1 .. n : d[i] = s[m]
  BY <1>1 DEF Sorts
<1>5. Distinct(t) /\ Falls(t)
  <2>1. \A i \in 1 .. b : i \in 1 .. n
    BY <1>b
  <2> QED
    <3>0. ASSUME NEW i \in 1 .. b, NEW j \in 1 .. b, i # j PROVE t[i] # t[j]
      <4>1. i \in DOMAIN d /\ j \in DOMAIN d /\ t[i] = d[i] /\ t[j] = d[j]
        BY <1>1, <1>3, <2>1
      <4> QED
        BY <1>4, <3>0, <4>1 DEF Distinct
    <3>1. Distinct(t)
      BY <1>3, <3>0 DEF Distinct
    <3>2. Falls(t)
      BY <1>3, <1>4, <2>1 DEF Falls
    <3> QED
      BY <3>1, <3>2
<1>6. \A i \in DOMAIN t : \E m \in 1 .. n : t[i] = s[m]
  <2>1. \A i \in 1 .. b : i \in 1 .. n
    BY <1>b
  <2> QED
    BY <1>3, <1>4, <2>1
<1>7. ASSUME NEW m \in 1 .. n PROVE Has(t, s[m]) \/ (n > k /\ NoneBelow(t, s[m]))
  <2>1. PICK i \in 1 .. n : d[i] = s[m]
    BY <1>4
  <2>2. CASE i <= b
    <3>1. i \in DOMAIN t /\ t[i] = s[m]
      BY <1>b, <1>3, <2>1, <2>2
    <3>2. Has(t, s[m])
      BY <3>1 DEF Has
    <3> QED
      BY <3>2
  <2>3. CASE i > b
    <3>1. n > k
      BY <1>b, <2>3
    <3>2. ASSUME NEW j \in DOMAIN t PROVE s[m].score <= t[j].score
      <4>1. j \in 1 .. n /\ j < i /\ t[j] = d[j]
        BY <1>b, <1>3, <2>3
      <4>2. d[j].score >= d[i].score /\ d[i].score \in Int /\ d[j].score \in Int
        BY <1>1, <1>4, <4>1, ScoresAre
      <4> QED
        BY <2>1, <4>1, <4>2
    <3>3. NoneBelow(t, s[m])
      BY <3>2 DEF NoneBelow
    <3> QED
      BY <3>1, <3>3
  <2> QED
    BY <1>b, <2>2, <2>3
<1>8. Len(t) = IF n <= k THEN n ELSE k
  BY <1>b, <1>3
<1> QED
  <2>1. BestOf(t, s, n, k)
    BY <1>3, <1>5, <1>6, <1>7, <1>8 DEF BestOf
  <2> QED
    BY <1>t, <1>n, <1>5, <2>1

-----------------------------------------------------------------------------
(* The invariant of the choice, a part for each of its loops.              *)
ScoreIn(o, i) ==
    ScoreCandidate(o.candidates[i],
                   Max({0} \union {o.candidates[j].co : j \in DOMAIN o.candidates}))

ExcludedIn(o, i) == FindExclusionReason(o.candidates[i])

(* s holds the entries of the first n candidates that are not excluded.    *)
EntriesOf(s, o, n) ==
    /\ s \in Seq(Entry)
    /\ \A m \in DOMAIN s : /\ s[m].item \in 1 .. n /\ ~ExcludedIn(o, s[m].item)
                           /\ s[m].score = ScoreIn(o, s[m].item)
    /\ \A l, m \in DOMAIN s : l # m => s[l].item # s[m].item
    /\ \A i \in 1 .. n : ~ExcludedIn(o, i) => \E m \in DOMAIN s : s[m].item = i

OfferType == [candidates : Seq(Candidate), k : Nat, threshold : Nat]

ScoredInv == /\ offer \in OfferType
             /\ considered \in 0 .. Len(offer.candidates)
             /\ EntriesOf(scored, offer, considered)

PushedInv == /\ pushed \in 0 .. Len(scored)
             /\ doing # "done" => BestOf(heap, scored, pushed, offer.k)
             /\ doing = "score" => pushed = 0
             /\ doing # "score" => considered = Len(offer.candidates)
             /\ doing \in {"push", "up", "down"} => offer.k > 0

HeapInv == /\ doing = "push" => HeapBut(heap, {})
           /\ doing = "up" => at \in DOMAIN heap /\ HeapBut(heap, {at}) /\ Bridged(heap, at)
           /\ doing = "down" => /\ at \in DOMAIN heap /\ HeapBut(heap, Children(at))
                                /\ Bridged(heap, at)

ChosenInv == doing = "done" => /\ BestOf(chosen, scored, Len(scored), offer.k)
                               /\ Falls(chosen)

ChoiceInv == ScoredInv /\ PushedInv /\ HeapInv /\ ChosenInv

LEMMA ScoreIsIn == /\ \A i : Score(i) = ScoreIn(offer, i) /\ Excluded(i) = ExcludedIn(offer, i)
BY DEF Score, MostBought, ScoreIn, Excluded, ExcludedIn

LEMMA MostBoughtIs ==
    ASSUME NEW cs \in Seq(Candidate)
    PROVE  Max({0} \union {cs[i].co : i \in DOMAIN cs}) \in Nat
<1>1. PICK D \in {DOMAIN cs} : IsFiniteSet(D)
  BY FS_Interval
<1>2. \A i \in D : cs[i] \in Candidate
  BY <1>1
<1>3. PICK f : f = [i \in D |-> cs[i].co]
  OBVIOUS
<1>4. PICK S : S = {cs[i].co : i \in D}
  OBVIOUS
<1>5. S \subseteq Nat
  BY <1>2, <1>4 DEF Candidate
<1>6. f \in Surjection(D, S)
  BY <1>3, <1>4 DEF Surjection
<1>7. IsFiniteSet(S)
  BY <1>1, <1>6, FS_Surjection
<1>8. IsFiniteSet(S \union {0}) /\ S \union {0} = {0} \union S
  BY <1>7, FS_AddElement
<1>9. Max({0} \union S) \in {0} \union S
  <2>1. PICK Z : Z = {0} \union S
    OBVIOUS
  <2>2. IsFiniteSet(Z) /\ Z # {} /\ Z \subseteq Int
    <3>1. Z = S \union {0}
      BY <2>1
    <3>2. IsFiniteSet(Z)
      BY <1>8, <3>1
    <3>3. 0 \in Z /\ Z \subseteq Int
      BY <1>5, <3>1
    <3> QED
      BY <3>2, <3>3
  <2>3. Max(Z) \in Z
    BY <2>2, MaxMinIsIn
  <2> QED
    BY <2>1, <2>3
<1> QED
  BY <1>1, <1>4, <1>5, <1>9

LEMMA PortionGrows ==
    ASSUME NEW a \in Nat, NEW b \in Nat, a <= b, NEW n \in Nat
    PROVE  /\ Portion(a, n) \in Nat /\ Portion(b, n) \in Nat
           /\ Portion(a, n) <= Portion(b, n)
<1>1. CASE n <= 0
  BY <1>1 DEF Portion
<1>2. CASE n > 0
  <2>1. PICK x \in Nat : x = Min({a, n}) /\ x = IF a <= n THEN a ELSE n
    <3>1. a \in Int /\ n \in Int
      OBVIOUS
    <3>2. Min({a, n}) = IF a <= n THEN a ELSE n
      BY <3>1, MaxOfTwo
    <3> QED
      BY <3>2
  <2>2. PICK y \in Nat : y = Min({b, n}) /\ y = IF b <= n THEN b ELSE n
    <3>1. b \in Int /\ n \in Int
      OBVIOUS
    <3>2. Min({b, n}) = IF b <= n THEN b ELSE n
      BY <3>1, MaxOfTwo
    <3> QED
      BY <3>2
  <2>3. 1800 * x \in Nat /\ 1800 * y \in Nat /\ 1800 * x <= 1800 * y /\ n \in Nat \ {0}
    BY <1>2, <2>1, <2>2
  <2>4. (1800 * x) \div n <= (1800 * y) \div n
    BY <2>3, QuotientGrows
  <2>5. (1800 * x) \div n \in Nat /\ (1800 * y) \div n \in Nat
    BY <2>3, Quotient
  <2>6. Portion(a, n) = (1800 * x) \div n /\ Portion(b, n) = (1800 * y) \div n
    BY <1>2, <2>1, <2>2 DEF Portion
  <2> QED
    BY <2>4, <2>5, <2>6
<1> QED
  BY <1>1, <1>2

(* A candidate that is as good as another in every respect scores no less. *)
LEMMA GoodScoresMore ==
    ASSUME NEW c \in Candidate, NEW d \in Candidate, NEW n \in Nat
    PROVE  /\ ScoreCandidate(c, n) \in Int
           /\ AsGood(c, d) => ScoreCandidate(c, n) >= ScoreCandidate(d, n)
<1> DEFINE capped(x) == Min({50, x})
           within(x) == Max({0, Min({60, x})})
<1>1. ASSUME NEW x \in Int PROVE capped(x) = IF 50 <= x THEN 50 ELSE x
  <2>1. 50 \in Int
    OBVIOUS
  <2> QED
    BY <2>1, MaxOfTwo
<1>2. ASSUME NEW x \in Int PROVE within(x) = IF x <= 0 THEN 0 ELSE IF 60 <= x THEN 60 ELSE x
  <2>1. PICK y \in Int : y = Min({60, x}) /\ y = IF 60 <= x THEN 60 ELSE x
    <3>1. 60 \in Int
      OBVIOUS
    <3>2. Min({60, x}) = IF 60 <= x THEN 60 ELSE x
      BY <3>1, MaxOfTwo
    <3> QED
      BY <3>2
  <2>2. Max({0, y}) = IF 0 >= y THEN 0 ELSE y
    <3>1. 0 \in Int
      OBVIOUS
    <3> QED
      BY <3>1, MaxOfTwo
  <2> QED
    BY <2>1, <2>2
<1> HIDE DEF capped, within
<1>3. ASSUME NEW e \in Candidate
      PROVE  /\ e.co \in Nat /\ e.promotion \in Nat /\ e.margin \in Int
             /\ e.stock \in Int /\ e.same \in Nat /\ e.total \in Nat
             /\ Portion(e.co, n) \in Nat /\ Portion(e.same, e.total) \in Nat
             /\ Portion(e.same, e.total) \div 3 \in Nat
             /\ ScoreCandidate(e, n) = Portion(e.co, n) + 18 * capped(e.promotion)
                  + 20 * within(e.margin) + 600 + 18 * capped(e.stock)
                  + Portion(e.same, e.total) \div 3
  <2>1. /\ e.co \in Nat /\ e.promotion \in Nat /\ e.margin \in Int
        /\ e.stock \in Int /\ e.same \in Nat /\ e.total \in Nat
    BY DEF Candidate
  <2>2. Portion(e.co, n) \in Nat /\ Portion(e.same, e.total) \in Nat
    <3>1. e.co <= e.co /\ e.same <= e.same
      BY <2>1
    <3> QED
      BY <2>1, <3>1, PortionGrows
  <2>3. Portion(e.same, e.total) \div 3 \in Nat
    BY <2>2
  <2>4. ScoreCandidate(e, n) = Portion(e.co, n) + 18 * capped(e.promotion)
                  + 20 * within(e.margin) + 600 + 18 * capped(e.stock)
                  + Portion(e.same, e.total) \div 3
    BY DEF ScoreCandidate, capped, within
  <2> QED
    BY <2>1, <2>2, <2>3, <2>4
<1>4. ScoreCandidate(c, n) \in Int
  <2>1. /\ capped(c.promotion) \in Int /\ capped(c.stock) \in Int /\ within(c.margin) \in Int
        /\ Portion(c.co, n) \in Int /\ Portion(c.same, c.total) \div 3 \in Int
    <3>1. c.promotion \in Int /\ c.stock \in Int /\ c.margin \in Int
      BY <1>3
    <3>2. capped(c.promotion) \in Int /\ capped(c.stock) \in Int
      BY <1>1, <3>1
    <3>3. within(c.margin) \in Int
      BY <1>2, <3>1
    <3>4. Portion(c.co, n) \in Int /\ Portion(c.same, c.total) \div 3 \in Int
      BY <1>3
    <3> QED
      BY <3>2, <3>3, <3>4
  <2>2. PICK p1 \in Int, p2 \in Int, a \in Int, b \in Int, w \in Int :
           /\ p1 = Portion(c.co, n) /\ p2 = Portion(c.same, c.total) \div 3
           /\ a = capped(c.promotion) /\ b = capped(c.stock) /\ w = within(c.margin)
    BY <2>1
  <2>3. ScoreCandidate(c, n) = p1 + 18 * a + 20 * w + 600 + 18 * b + p2
    BY <1>3, <2>2
  <2> QED
    BY <2>3
<1>5. ASSUME AsGood(c, d) PROVE ScoreCandidate(c, n) >= ScoreCandidate(d, n)
  <2>1. PICK p1 \in Int, q1 \in Int : p1 = Portion(c.co, n) /\ q1 = Portion(d.co, n) /\ p1 >= q1
    <3>1. c.co \in Nat /\ d.co \in Nat /\ d.co <= c.co
      BY <1>3, <1>5 DEF AsGood
    <3>2. /\ Portion(d.co, n) \in Nat /\ Portion(c.co, n) \in Nat
          /\ Portion(d.co, n) <= Portion(c.co, n)
      BY <3>1, PortionGrows
    <3> QED
      BY <3>2
  <2>2. PICK p2 \in Int, q2 \in Int : /\ p2 = Portion(c.same, c.total) \div 3
                                      /\ q2 = Portion(d.same, d.total) \div 3 /\ p2 >= q2
    <3>1. PICK x \in Nat, y \in Nat : x = Portion(c.same, c.total) /\ y = Portion(d.same, d.total) /\ x >= y
      BY <1>3, <1>5, PortionGrows DEF AsGood
    <3>2. x \div 3 >= y \div 3 /\ x \div 3 \in Int /\ y \div 3 \in Int
      BY <3>1
    <3> QED
      BY <3>1, <3>2
  <2>3. PICK a1 \in Int, a2 \in Int : a1 = capped(c.promotion) /\ a2 = capped(d.promotion) /\ a1 >= a2
    BY <1>1, <1>3, <1>5 DEF AsGood
  <2>4. PICK b1 \in Int, b2 \in Int : b1 = capped(c.stock) /\ b2 = capped(d.stock) /\ b1 >= b2
    BY <1>1, <1>3, <1>5 DEF AsGood
  <2>5. PICK w1 \in Int, w2 \in Int : w1 = within(c.margin) /\ w2 = within(d.margin) /\ w1 >= w2
    BY <1>2, <1>3, <1>5 DEF AsGood
  <2>6. /\ ScoreCandidate(c, n) = p1 + 18 * a1 + 20 * w1 + 600 + 18 * b1 + p2
        /\ ScoreCandidate(d, n) = q1 + 18 * a2 + 20 * w2 + 600 + 18 * b2 + q2
    BY <1>3, <2>1, <2>2, <2>3, <2>4, <2>5
  <2> QED
    BY <2>1, <2>2, <2>3, <2>4, <2>5, <2>6
<1> QED
  BY <1>4, <1>5

-----------------------------------------------------------------------------
(* Each step of the choice keeps its invariant.                            *)
LEMMA OffersFit == \A o \in Offers : o \in OfferType
BY CalculationsAssumption DEF CalculationsAssumption, OfferType

LEMMA ChoiceFirst == ASSUME NEW o \in OfferType, SelectInit(o) PROVE ChoiceInv
<1>1. o.candidates \in Seq(Candidate) /\ Len(o.candidates) \in Nat /\ o.k \in Nat
  BY DEF OfferType
<1>2. EntriesOf(<< >>, o, 0)
  <2>1. << >> \in Seq(Entry) /\ DOMAIN << >> = {} /\ 1 .. 0 = {}
    OBVIOUS
  <2> QED
    BY <2>1 DEF EntriesOf
<1>3. BestOf(<< >>, << >>, 0, o.k)
  <2>1. << >> \in Seq(Entry) /\ DOMAIN << >> = {} /\ 1 .. 0 = {} /\ Len(<< >>) = 0
    OBVIOUS
  <2> QED
    BY <1>1, <2>1 DEF BestOf, Distinct
<1>4. /\ offer = o /\ considered = 0 /\ scored = << >> /\ pushed = 0 /\ heap = << >>
      /\ doing = "score"
  BY DEF SelectInit
<1>5. ScoredInv
  BY <1>1, <1>2, <1>4 DEF ScoredInv
<1>6. PushedInv
  BY <1>3, <1>4 DEF PushedInv
<1>7. HeapInv /\ ChosenInv
  BY <1>4 DEF HeapInv, ChosenInv
<1> QED
  BY <1>5, <1>6, <1>7 DEF ChoiceInv

(* The scores of an offer are numbers, and its entries differ.             *)
LEMMA ScoresAreNumbers ==
    ASSUME NEW o \in OfferType, NEW i \in DOMAIN o.candidates
    PROVE  ScoreIn(o, i) \in Int
<1>1. o.candidates \in Seq(Candidate) /\ o.candidates[i] \in Candidate
  <2>1. o.candidates \in Seq(Candidate)
    BY DEF OfferType
  <2> QED
    BY <2>1
<1>2. PICK n \in Nat : n = Max({0} \union {o.candidates[j].co : j \in DOMAIN o.candidates})
  BY <1>1, MostBoughtIs
<1>3. ScoreCandidate(o.candidates[i], n) \in Int
  BY <1>1, <1>2, GoodScoresMore
<1> QED
  BY <1>2, <1>3 DEF ScoreIn

LEMMA EntriesDiffer == ASSUME NEW s, NEW o, NEW n, EntriesOf(s, o, n) PROVE Distinct(s)
BY DEF EntriesOf, Distinct

LEMMA OneMoreEntry ==
    ASSUME NEW o \in OfferType, NEW n \in Nat, n + 1 \in DOMAIN o.candidates,
           NEW s, EntriesOf(s, o, n)
    PROVE  /\ ExcludedIn(o, n + 1) => EntriesOf(s, o, n + 1)
           /\ ~ExcludedIn(o, n + 1)
                => EntriesOf(Append(s, [score |-> ScoreIn(o, n + 1), item |-> n + 1]), o, n + 1)
<1>1. ASSUME NEW i \in 1 .. n + 1, i # n + 1 PROVE i \in 1 .. n
  BY <1>1
<1>2. \A i \in 1 .. n : i \in 1 .. n + 1 /\ i # n + 1
  OBVIOUS
<1>3. ASSUME ExcludedIn(o, n + 1) PROVE EntriesOf(s, o, n + 1)
  <2>1. \A i \in 1 .. n + 1 : ~ExcludedIn(o, i) => \E m \in DOMAIN s : s[m].item = i
    BY <1>1, <1>3 DEF EntriesOf
  <2> QED
    BY <1>2, <2>1 DEF EntriesOf
<1>4. ASSUME ~ExcludedIn(o, n + 1)
      PROVE  EntriesOf(Append(s, [score |-> ScoreIn(o, n + 1), item |-> n + 1]), o, n + 1)
  <2>1. PICK e : e = [score |-> ScoreIn(o, n + 1), item |-> n + 1]
    OBVIOUS
  <2>2. e \in Entry /\ e.score = ScoreIn(o, n + 1) /\ e.item = n + 1
    BY <2>1, ScoresAreNumbers DEF Entry
  <2>3. s \in Seq(Entry)
    BY DEF EntriesOf
  <2>4. PICK t : t = Append(s, e)
    OBVIOUS
  <2>5. PICK l \in Nat : l = Len(s)
    BY <2>3
  <2>6. /\ t \in Seq(Entry) /\ DOMAIN s = 1 .. l /\ DOMAIN t = 1 .. l + 1
        /\ t[l + 1] = e /\ \A m \in 1 .. l : t[m] = s[m]
    BY <2>2, <2>3, <2>4, <2>5
  <2>7. /\ \A m \in 1 .. l : s[m].item \in 1 .. n /\ ~ExcludedIn(o, s[m].item)
                             /\ s[m].score = ScoreIn(o, s[m].item)
        /\ \A a, m \in 1 .. l : a # m => s[a].item # s[m].item
        /\ \A i \in 1 .. n : ~ExcludedIn(o, i) => \E m \in 1 .. l : s[m].item = i
    BY <2>6 DEF EntriesOf
  <2>8. ASSUME NEW m \in 1 .. l + 1
        PROVE  /\ t[m].item \in 1 .. n + 1 /\ ~ExcludedIn(o, t[m].item)
               /\ t[m].score = ScoreIn(o, t[m].item)
    <3>1. CASE m = l + 1
      BY <1>4, <2>2, <2>6, <3>1
    <3>2. CASE m # l + 1
      <4>1. m \in 1 .. l
        BY <3>2
      <4> QED
        BY <1>2, <2>6, <2>7, <4>1
    <3> QED
      BY <3>1, <3>2
  <2>9. ASSUME NEW a \in 1 .. l + 1, NEW m \in 1 .. l + 1, a # m PROVE t[a].item # t[m].item
    <3>1. CASE a \in 1 .. l /\ m \in 1 .. l
      BY <2>6, <2>7, <2>9, <3>1
    <3>2. CASE a = l + 1
      <4>1. m \in 1 .. l
        BY <2>9, <3>2
      <4> QED
        BY <1>2, <2>2, <2>6, <2>7, <3>2, <4>1
    <3>3. CASE m = l + 1
      <4>1. a \in 1 .. l
        BY <2>9, <3>3
      <4> QED
        BY <1>2, <2>2, <2>6, <2>7, <3>3, <4>1
    <3> QED
      BY <3>1, <3>2, <3>3
  <2>10. ASSUME NEW i \in 1 .. n + 1, ~ExcludedIn(o, i) PROVE \E m \in 1 .. l + 1 : t[m].item = i
    <3>1. CASE i = n + 1
      <4>1. l + 1 \in 1 .. l + 1 /\ t[l + 1].item = i
        BY <2>2, <2>6, <3>1
      <4> QED
        BY <4>1
    <3>2. CASE i # n + 1
      <4>1. PICK m \in 1 .. l : s[m].item = i
        BY <1>1, <2>7, <2>10, <3>2
      <4>2. m \in 1 .. l + 1 /\ t[m].item = i
        BY <2>6, <4>1
      <4> QED
        BY <4>2
    <3> QED
      BY <3>1, <3>2
  <2>11. EntriesOf(t, o, n + 1)
    BY <2>6, <2>8, <2>9, <2>10 DEF EntriesOf
  <2> QED
    BY <2>1, <2>4, <2>11
<1> QED
  BY <1>3, <1>4

LEMMA ConsiderKeeps == ASSUME ChoiceInv, Consider PROVE ChoiceInv'
<1>1. PICK o \in OfferType, n \in Nat : /\ o = offer /\ n = considered /\ n + 1 \in DOMAIN o.candidates
                                        /\ n + 1 <= Len(o.candidates)
  <2>1. offer \in OfferType /\ considered \in Nat
    BY DEF ChoiceInv, ScoredInv
  <2>2. offer.candidates \in Seq(Candidate)
    BY <2>1 DEF OfferType
  <2> QED
    BY <2>1, <2>2 DEF Consider
<1>2. /\ offer' = o /\ considered' = n + 1
      /\ scored' = IF ExcludedIn(o, n + 1) THEN scored
                   ELSE Append(scored, [score |-> ScoreIn(o, n + 1), item |-> n + 1])
  <2>1. /\ offer' = o /\ considered' = n + 1
        /\ scored' = IF Excluded(n + 1) THEN scored
                     ELSE Append(scored, [score |-> Score(n + 1), item |-> n + 1])
    BY <1>1 DEF Consider
  <2>2. Score(n + 1) = ScoreIn(o, n + 1) /\ Excluded(n + 1) = ExcludedIn(o, n + 1)
    BY <1>1, ScoreIsIn
  <2> QED
    BY <2>1, <2>2
<1>3. EntriesOf(scored', o, n + 1)
  <2>1. EntriesOf(scored, o, n)
    BY <1>1 DEF ChoiceInv, ScoredInv
  <2> QED
    BY <1>1, <1>2, <2>1, OneMoreEntry
<1>4. ScoredInv'
  <2>1. offer' \in OfferType /\ EntriesOf(scored', offer', considered')
    BY <1>1, <1>2, <1>3
  <2>2. considered' \in 0 .. Len(offer'.candidates)
    <3>1. Len(o.candidates) \in Nat
      BY <1>1 DEF OfferType
    <3> QED
      BY <1>1, <1>2, <3>1
  <2> QED
    BY <2>1, <2>2 DEF ScoredInv
<1>5. /\ doing = "score" /\ doing' = "score" /\ pushed' = pushed /\ heap' = heap
      /\ pushed = 0 /\ BestOf(heap, scored, 0, o.k)
  BY <1>1 DEF Consider, ChoiceInv, PushedInv
<1>6. PushedInv'
  <2>1. BestOf(heap, scored', 0, o.k)
    <3>1. 1 .. 0 = {}
      OBVIOUS
    <3> QED
      BY <1>5, <3>1 DEF BestOf
  <2>2. scored' \in Seq(Entry)
    BY <1>3 DEF EntriesOf
  <2>3. 0 \in 0 .. Len(scored')
    BY <2>2
  <2> QED
    BY <1>2, <1>5, <2>1, <2>3 DEF PushedInv
<1>7. HeapInv' /\ ChosenInv'
  BY <1>5 DEF HeapInv, ChosenInv
<1> QED
  BY <1>4, <1>6, <1>7 DEF ChoiceInv

(* Where the offer and its entries stay, so does what is known of them.    *)
LEMMA ScoredStays ==
    ASSUME ScoredInv, UNCHANGED <<offer, considered, scored>> PROVE ScoredInv'
BY DEF ScoredInv

LEMMA ScoredIs ==
    ASSUME ChoiceInv
    PROVE  /\ offer.k \in Nat /\ scored \in Seq(Entry) /\ Distinct(scored)
           /\ Len(scored) \in Nat /\ DOMAIN scored = 1 .. Len(scored)
           /\ pushed \in 0 .. Len(scored)
<1>1. offer \in OfferType /\ EntriesOf(scored, offer, considered) /\ pushed \in 0 .. Len(scored)
  BY DEF ChoiceInv, ScoredInv, PushedInv
<1>2. offer.k \in Nat /\ scored \in Seq(Entry) /\ Distinct(scored)
  BY <1>1, EntriesDiffer DEF OfferType, EntriesOf
<1> QED
  BY <1>1, <1>2

LEMMA SelectBySortKeeps == ASSUME ChoiceInv, SelectBySort PROVE ChoiceInv'
<1>1. ScoredInv'
  BY ScoredStays DEF SelectBySort, ChoiceInv
<1>2. /\ doing' = "done" /\ considered = Len(offer.candidates)
      /\ pushed' = pushed /\ scored' = scored /\ offer' = offer /\ considered' = considered
      /\ chosen' = SubSeq(Descending(scored), 1, Min({offer.k, Len(scored)}))
  BY DEF SelectBySort
<1>3. PushedInv' /\ HeapInv'
  BY <1>2, ScoredIs DEF PushedInv, HeapInv
<1>4. BestOf(chosen', scored', Len(scored'), offer'.k) /\ Falls(chosen')
  <2>1. BestOf(chosen', scored, Len(scored), offer.k) /\ Falls(chosen')
    BY <1>2, ScoredIs, AllSorted
  <2> QED
    BY <1>2, <2>1
<1> QED
  BY <1>1, <1>3, <1>4 DEF ChosenInv, ChoiceInv

LEMMA SelectByHeapKeeps == ASSUME ChoiceInv, SelectByHeap PROVE ChoiceInv'
<1>1. ScoredInv'
  BY ScoredStays DEF SelectByHeap, ChoiceInv
<1>2. /\ doing = "score" /\ doing' = "push" /\ considered = Len(offer.candidates) /\ offer.k # 0
      /\ pushed' = pushed /\ scored' = scored /\ offer' = offer /\ considered' = considered
      /\ heap' = heap
  BY DEF SelectByHeap, FewEnough
<1>3. pushed = 0 /\ BestOf(heap, scored, pushed, offer.k)
  BY <1>2 DEF ChoiceInv, PushedInv
<1>4. PushedInv'
  BY <1>2, <1>3, ScoredIs DEF PushedInv
<1>5. HeapInv'
  <2>1. heap \in Seq(Entry) /\ Len(heap) = 0
    BY <1>3, ScoredIs DEF BestOf
  <2>2. DOMAIN heap = {}
    BY <2>1
  <2> QED
    BY <1>2, <2>2 DEF HeapInv, HeapBut
<1>6. ChosenInv'
  BY <1>2 DEF ChosenInv
<1> QED
  BY <1>1, <1>4, <1>5, <1>6 DEF ChoiceInv

LEMMA PushKeeps == ASSUME ChoiceInv, Push PROVE ChoiceInv'
<1>1. ScoredInv'
  BY ScoredStays DEF Push, ChoiceInv
<1>2. PICK s \in Seq(Entry), n \in Nat, k \in Nat \ {0}, h \in Seq(Entry), e \in Entry :
        /\ s = scored /\ n = pushed /\ k = offer.k /\ h = heap /\ e = s[n + 1]
        /\ n + 1 \in DOMAIN s /\ n + 1 \in 0 .. Len(s) /\ Distinct(s)
        /\ BestOf(h, s, n, k) /\ HeapBut(h, {})
  <2>1. pushed < Len(scored) /\ doing = "push"
    BY DEF Push
  <2>2. offer.k \in Nat \ {0} /\ BestOf(heap, scored, pushed, offer.k) /\ HeapBut(heap, {})
    BY <2>1, ScoredIs DEF ChoiceInv, PushedInv, HeapInv
  <2>3. /\ pushed \in Nat /\ pushed + 1 \in DOMAIN scored /\ pushed + 1 \in 0 .. Len(scored)
        /\ scored[pushed + 1] \in Entry
    BY <2>1, ScoredIs
  <2>4. heap \in Seq(Entry)
    BY <2>2 DEF BestOf
  <2> QED
    BY <2>2, <2>3, <2>4, ScoredIs
<1>3. /\ doing = "push" /\ pushed' = n + 1 /\ scored' = s /\ offer' = offer /\ offer'.k = k
      /\ considered' = considered /\ considered = Len(offer.candidates)
  BY <1>2 DEF Push, ChoiceInv, PushedInv
<1>4. \/ Len(h) < k /\ heap' = Append(h, e) /\ at' = Len(h) + 1 /\ doing' = "up"
      \/ Len(h) >= k /\ e.score <= h[1].score /\ heap' = h /\ doing' = "push"
      \/ /\ Len(h) >= k /\ e.score > h[1].score
         /\ heap' = [h EXCEPT ![1] = e] /\ at' = 1 /\ doing' = "down"
  BY <1>2, <1>3 DEF Push
<1>5. /\ BestOf(heap', s, n + 1, k) /\ doing' \in {"push", "up", "down"}
      /\ doing' = "push" => HeapBut(heap', {})
      /\ doing' = "up" => at' \in DOMAIN heap' /\ HeapBut(heap', {at'}) /\ Bridged(heap', at')
      /\ doing' = "down" => /\ at' \in DOMAIN heap' /\ HeapBut(heap', Children(at'))
                            /\ Bridged(heap', at')
  <2>1. CASE Len(h) < k /\ heap' = Append(h, e) /\ at' = Len(h) + 1 /\ doing' = "up"
    <3>1. BestOf(heap', s, n + 1, k)
      BY <1>2, <2>1, PushesOn
    <3>2. PICK m \in Nat : m = Len(h) + 1
      BY <1>2
    <3>3. HeapBut(heap', {m}) /\ Bridged(heap', m) /\ m \in DOMAIN heap'
      BY <1>2, <2>1, <3>2, AppendedHeap
    <3> QED
      BY <2>1, <3>1, <3>2, <3>3
  <2>2. CASE Len(h) >= k /\ e.score <= h[1].score /\ heap' = h /\ doing' = "push"
    <3>1. BestOf(h, s, n + 1, k)
      BY <1>2, <2>2, PassesOver
    <3> QED
      BY <1>2, <2>2, <3>1
  <2>3. CASE /\ Len(h) >= k /\ e.score > h[1].score
             /\ heap' = [h EXCEPT ![1] = e] /\ at' = 1 /\ doing' = "down"
    <3>1. /\ BestOf(heap', s, n + 1, k) /\ HeapBut(heap', Children(1))
          /\ Bridged(heap', 1) /\ 1 \in DOMAIN heap'
      BY <1>2, <2>3, TakesOver
    <3> QED
      BY <2>3, <3>1
  <2> QED
    BY <1>4, <2>1, <2>2, <2>3
<1>6. PushedInv'
  BY <1>2, <1>3, <1>5 DEF PushedInv
<1>7. HeapInv' /\ ChosenInv'
  BY <1>5 DEF HeapInv, ChosenInv
<1> QED
  BY <1>1, <1>6, <1>7 DEF ChoiceInv

(* While an entry is on its way the heap holds the same.                   *)
LEMMA OnTheWay ==
    ASSUME ChoiceInv, doing \in {"up", "down"}
    PROVE  /\ BestOf(heap, scored, pushed, offer.k) /\ heap \in Seq(Entry)
           /\ at \in DOMAIN heap /\ Bridged(heap, at)
           /\ pushed \in Nat /\ offer.k \in Nat /\ offer.k > 0
           /\ considered = Len(offer.candidates)
<1>1. BestOf(heap, scored, pushed, offer.k) /\ offer.k > 0 /\ considered = Len(offer.candidates)
  BY DEF ChoiceInv, PushedInv
<1>2. at \in DOMAIN heap /\ Bridged(heap, at)
  BY DEF ChoiceInv, HeapInv
<1> QED
  BY <1>1, <1>2, ScoredIs DEF BestOf

LEMMA SettleKeeps ==
    ASSUME ChoiceInv, doing \in {"up", "down"}, Settle, HeapBut(heap, {}) PROVE ChoiceInv'
<1>1. ScoredInv'
  BY ScoredStays DEF Settle, ChoiceInv
<1>2. /\ doing' = "push" /\ pushed' = pushed /\ scored' = scored /\ offer' = offer
      /\ considered' = considered /\ heap' = heap
  BY DEF Settle
<1>3. PushedInv'
  BY <1>2, OnTheWay, ScoredIs DEF PushedInv
<1>4. HeapInv' /\ ChosenInv'
  BY <1>2 DEF HeapInv, ChosenInv
<1> QED
  BY <1>1, <1>3, <1>4 DEF ChoiceInv

LEMMA MoveKeeps ==
    ASSUME ChoiceInv, doing \in {"up", "down"}, NEW to \in DOMAIN heap, to # at, MoveTo(to),
           LET g == Exchanged(heap, at, to)
           IN  /\ doing = "up" => HeapBut(g, {to})
               /\ doing = "down" => HeapBut(g, Children(to))
               /\ Bridged(g, to)
    PROVE  ChoiceInv'
<1>1. ScoredInv'
  BY ScoredStays DEF MoveTo, ChoiceInv
<1>2. PICK g : g = Exchanged(heap, at, to)
  OBVIOUS
<1>3. /\ heap' = g /\ at' = to /\ doing' = doing /\ pushed' = pushed /\ scored' = scored
      /\ offer' = offer /\ considered' = considered
  BY <1>2 DEF MoveTo, Swap, Exchanged
<1>4. BestOf(g, scored, pushed, offer.k)
  BY <1>2, OnTheWay, ExchangeKeeps
<1>5. DOMAIN g = DOMAIN heap
  BY <1>2 DEF Exchanged
<1>6. PushedInv'
  BY <1>3, <1>4, OnTheWay, ScoredIs DEF PushedInv
<1>7. HeapInv' /\ ChosenInv'
  BY <1>2, <1>3, <1>5 DEF HeapInv, ChosenInv
<1> QED
  BY <1>1, <1>6, <1>7 DEF ChoiceInv

LEMMA BubbleUpKeeps == ASSUME ChoiceInv, BubbleUp PROVE ChoiceInv'
<1>1. doing = "up" /\ doing \in {"up", "down"}
  BY DEF BubbleUp
<1>2. heap \in Seq(Entry) /\ at \in DOMAIN heap /\ Bridged(heap, at) /\ HeapBut(heap, {at})
  BY <1>1, OnTheWay DEF ChoiceInv, HeapInv
<1>3. CASE at > 1 /\ heap[Parent(at)].score > heap[at].score
  <2>1. MoveTo(Parent(at))
    BY <1>3 DEF BubbleUp
  <2>2. Parent(at) \in DOMAIN heap /\ Parent(at) # at
    <3>1. at \in Nat /\ DOMAIN heap = 1 .. Len(heap) /\ Len(heap) \in Nat
      BY <1>2
    <3>2. Parent(at) \in 1 .. at - 1
      BY <1>3, <3>1, ParentIs
    <3> QED
      BY <1>2, <3>1, <3>2
  <2>3. PICK g : g = Exchanged(heap, at, Parent(at))
    OBVIOUS
  <2>4. HeapBut(g, {Parent(at)}) /\ Bridged(g, Parent(at))
    BY <1>2, <1>3, <2>3, MovesUp
  <2> QED
    BY <1>1, <2>1, <2>2, <2>3, <2>4, MoveKeeps
<1>4. CASE ~(at > 1 /\ heap[Parent(at)].score > heap[at].score)
  <2>1. Settle
    BY <1>4 DEF BubbleUp
  <2>2. HeapBut(heap, {})
    BY <1>2, <1>4, StopsUp
  <2> QED
    BY <1>1, <2>1, <2>2, SettleKeeps
<1> QED
  BY <1>3, <1>4

LEMMA BubbleDownKeeps == ASSUME ChoiceInv, BubbleDown PROVE ChoiceInv'
<1>1. doing = "down" /\ doing \in {"up", "down"}
  BY DEF BubbleDown
<1>2. /\ heap \in Seq(Entry) /\ at \in DOMAIN heap /\ Bridged(heap, at)
      /\ HeapBut(heap, Children(at))
  BY <1>1, OnTheWay DEF ChoiceInv, HeapInv
<1>3. /\ DOMAIN heap = 1 .. Len(heap) /\ Len(heap) \in Nat /\ at \in Nat
      /\ \A i \in DOMAIN heap : heap[i].score \in Int
  BY <1>2, ScoresAre
<1>4. \A i : i \in LowerChildren <=> i \in Children(at) /\ i \in DOMAIN heap /\ heap[i].score < heap[at].score
  <2>1. ASSUME NEW i \in Children(at) PROVE i <= Len(heap) <=> i \in DOMAIN heap
    <3>1. i \in Nat /\ i >= 1
      BY <1>2, <1>3 DEF Children
    <3> QED
      BY <1>3, <3>1
  <2> QED
    BY <2>1 DEF LowerChildren, Children
<1>5. CASE LowerChildren = {} /\ Settle
  <2>1. \A c \in Children(at) : c \in DOMAIN heap => ~(heap[c].score < heap[at].score)
    BY <1>4, <1>5
  <2>2. HeapBut(heap, {})
    BY <1>2, <2>1, StopsDown
  <2> QED
    BY <1>1, <1>5, <2>2, SettleKeeps
<1>6. ASSUME NEW i \in LowerChildren,
             \A j \in LowerChildren : \/ heap[i].score < heap[j].score
                                      \/ heap[i].score = heap[j].score /\ i <= j,
             MoveTo(i)
      PROVE  ChoiceInv'
  <2>1. i \in Children(at) /\ i \in DOMAIN heap /\ heap[i].score < heap[at].score
    BY <1>4
  <2>2. i # at
    BY <1>3, <2>1
  <2>3. \A d \in Children(at) : d \in DOMAIN heap /\ heap[d].score < heap[at].score
                                  => heap[i].score <= heap[d].score
    BY <1>3, <1>4, <1>6, <2>1
  <2>4. PICK g : g = Exchanged(heap, at, i)
    OBVIOUS
  <2>5. HeapBut(g, Children(i)) /\ Bridged(g, i)
    BY <1>2, <2>1, <2>3, <2>4, MovesDown
  <2> QED
    BY <1>1, <1>6, <2>1, <2>2, <2>4, <2>5, MoveKeeps
<1> QED
  BY <1>5, <1>6 DEF BubbleDown

LEMMA ToSortedDescendingKeeps == ASSUME ChoiceInv, ToSortedDescending PROVE ChoiceInv'
<1>1. ScoredInv'
  BY ScoredStays DEF ToSortedDescending, ChoiceInv
<1>2. /\ doing = "push" /\ pushed = Len(scored) /\ doing' = "done" /\ pushed' = pushed
      /\ scored' = scored /\ offer' = offer /\ considered' = considered
      /\ chosen' = Descending(heap)
  BY DEF ToSortedDescending
<1>3. /\ BestOf(heap, scored, Len(scored), offer.k) /\ considered = Len(offer.candidates)
  BY <1>2 DEF ChoiceInv, PushedInv
<1>4. PushedInv' /\ HeapInv'
  BY <1>2, <1>3, ScoredIs DEF PushedInv, HeapInv
<1>5. BestOf(chosen', scored, Len(scored), offer.k) /\ Falls(chosen')
  BY <1>2, <1>3, ScoredIs, HeapSorted
<1>6. ChosenInv'
  BY <1>2, <1>5 DEF ChosenInv
<1> QED
  BY <1>1, <1>4, <1>6 DEF ChoiceInv

LEMMA ChoiceStays == ASSUME ChoiceInv, UNCHANGED selectVars PROVE ChoiceInv'
<1>1. /\ offer' = offer /\ considered' = considered /\ scored' = scored /\ pushed' = pushed
      /\ heap' = heap /\ at' = at /\ doing' = doing /\ chosen' = chosen
  BY DEF selectVars
<1>2. ScoredInv'
  BY <1>1, ScoredStays DEF ChoiceInv
<1>3. PushedInv'
  BY <1>1 DEF ChoiceInv, PushedInv
<1>4. HeapInv'
  BY <1>1 DEF ChoiceInv, HeapInv
<1>5. ChosenInv'
  BY <1>1 DEF ChoiceInv, ChosenInv
<1> QED
  BY <1>2, <1>3, <1>4, <1>5 DEF ChoiceInv

LEMMA ChoiceNext == ChoiceInv /\ [Next]_vars => ChoiceInv'
<1> SUFFICES ASSUME ChoiceInv, [Next]_vars PROVE ChoiceInv'
  OBVIOUS
<1>1. CASE Ask
  BY <1>1, ChoiceStays DEF Ask
<1>2. CASE AskOn
  BY <1>2, ChoiceStays DEF AskOn
<1>3. CASE HandOut
  BY <1>3, ChoiceStays DEF HandOut
<1>4. CASE UNCHANGED vars
  BY <1>4, ChoiceStays DEF vars
<1>5. CASE Offer
  <2>1. SelectNext
    BY <1>5 DEF Offer
  <2> QED
    BY <2>1, ConsiderKeeps, SelectBySortKeeps, SelectByHeapKeeps, PushKeeps,
       BubbleUpKeeps, BubbleDownKeeps, ToSortedDescendingKeeps DEF SelectNext
<1> QED
  BY <1>1, <1>2, <1>3, <1>4, <1>5 DEF Next

LEMMA ChoiceInit == Init => ChoiceInv
<1> SUFFICES ASSUME Init PROVE ChoiceInv
  OBVIOUS
<1>1. NoOffer \in OfferType
  <2>1. << >> \in Seq(Candidate)
    OBVIOUS
  <2> QED
    BY <2>1 DEF NoOffer, OfferType
<1>2. \E o \in OfferType : SelectInit(o)
  BY <1>1, OffersFit DEF Init, InitSplit, InitRefund, InitInput, InitOffer
<1> QED
  BY <1>2, ChoiceFirst

LEMMA ChoiceAlways == Spec => []ChoiceInv
BY ChoiceInit, ChoiceNext, PTL DEF Spec

EligibleIn(o) == {i \in DOMAIN o.candidates : ~ExcludedIn(o, i)}

(* Entries are as many as the candidates that are not excluded.            *)
LEMMA EntriesCount ==
    ASSUME NEW o \in OfferType, NEW s, EntriesOf(s, o, Len(o.candidates))
    PROVE  /\ Cardinality(EligibleIn(o)) = Len(s)
           /\ \A i \in EligibleIn(o) : \E m \in DOMAIN s : s[m].item = i
           /\ \A m \in DOMAIN s : s[m].item \in EligibleIn(o)
<1>e. PICK E : E = EligibleIn(o)
  OBVIOUS
<1>1. s \in Seq(Entry) /\ DOMAIN o.candidates = 1 .. Len(o.candidates)
  BY DEF EntriesOf, OfferType
<1>2. PICK l \in Nat : l = Len(s)
  BY <1>1
<1>3. DOMAIN s = 1 .. l
  BY <1>1, <1>2
<1>4. /\ \A m \in 1 .. l : s[m].item \in E
      /\ \A i \in E : \E m \in 1 .. l : s[m].item = i
      /\ \A a, m \in 1 .. l : a # m => s[a].item # s[m].item
  BY <1>e, <1>1, <1>3 DEF EntriesOf, EligibleIn
<1>5. PICK f : f = [m \in 1 .. l |-> s[m].item]
  OBVIOUS
<1>6. f \in Bijection(1 .. l, E)
  <2>1. f \in [1 .. l -> E]
    BY <1>4, <1>5
  <2>2. f \in Injection(1 .. l, E)
    BY <1>4, <1>5, <2>1 DEF Injection, IsInjective
  <2>3. f \in Surjection(1 .. l, E)
    BY <1>4, <1>5, <2>1 DEF Surjection
  <2> QED
    BY <2>2, <2>3 DEF Bijection
<1>7. Cardinality(E) = l
  <2>1. 1 \in Int /\ l \in Int
    OBVIOUS
  <2>2. IsFiniteSet(1 .. l) /\ Cardinality(1 .. l) = IF 1 > l THEN 0 ELSE l - 1 + 1
    BY <2>1, FS_Interval
  <2>3. Cardinality(1 .. l) = l
    BY <2>2
  <2>4. ExistsBijection(1 .. l, E)
    BY <1>6 DEF ExistsBijection
  <2>5. Cardinality(E) = Cardinality(1 .. l)
    BY <2>2, <2>4, FS_Bijection
  <2> QED
    BY <2>3, <2>5
<1> QED
  BY <1>e, <1>2, <1>3, <1>4, <1>7

(* Whatever the candidates, their number and the threshold, by the heap as *)
(* by the sort the best are offered, best first, none of them twice.       *)
THEOREM BestAreChosen == Spec => []BestAreOffered
<1>1. ASSUME ChoiceInv, doing = "done" PROVE BestAreOffered
  <2>1. PICK o \in OfferType, s \in Seq(Entry), k \in Nat, c \in Seq(Entry) :
           /\ o = offer /\ s = scored /\ k = offer.k /\ c = chosen
           /\ EntriesOf(s, o, Len(o.candidates))
           /\ BestOf(c, s, Len(s), k) /\ Falls(c) /\ Distinct(s)
    <3>1. considered = Len(offer.candidates)
      BY <1>1 DEF ChoiceInv, PushedInv
    <3>2. offer \in OfferType /\ EntriesOf(scored, offer, Len(offer.candidates))
      BY <1>1, <3>1 DEF ChoiceInv, ScoredInv
    <3>3. BestOf(chosen, scored, Len(scored), offer.k) /\ Falls(chosen)
      BY <1>1 DEF ChoiceInv, ChosenInv
    <3>4. chosen \in Seq(Entry)
      BY <3>3 DEF BestOf
    <3> QED
      BY <1>1, <3>2, <3>3, <3>4, ScoredIs
  <2>2. PICK E : E = Eligible /\ E = EligibleIn(o)
    BY <2>1, ScoreIsIn DEF Eligible, EligibleIn
  <2>3. /\ Cardinality(E) = Len(s)
        /\ \A i \in E : \E m \in DOMAIN s : s[m].item = i
        /\ \A m \in DOMAIN s : s[m].item \in E
    BY <2>1, <2>2, EntriesCount
  <2>4. PICK l \in Nat : l = Len(s)
    BY <2>1
  <2>5. DOMAIN s = 1 .. l
    BY <2>1, <2>4
  <2>6. /\ Len(c) = IF l <= k THEN l ELSE k
        /\ \A i \in DOMAIN c : \E m \in 1 .. l : c[i] = s[m]
        /\ \A m \in 1 .. l : Has(c, s[m]) \/ NoneBelow(c, s[m])
        /\ Distinct(c)
    BY <2>1, <2>4 DEF BestOf
  <2>7. \A m \in 1 .. l : s[m].score = Score(s[m].item) /\ s[m].score \in Int
    <3>1. \A m \in 1 .. l : s[m].score = ScoreIn(o, s[m].item)
      BY <2>1, <2>5 DEF EntriesOf
    <3> QED
      BY <2>1, <2>5, <3>1, ScoreIsIn, ScoresAre
  <2>8. \A i \in DOMAIN c : c[i].item \in E /\ c[i].score = Score(c[i].item)
    BY <2>3, <2>5, <2>6, <2>7
  <2>9. PICK I : I = {c[n].item : n \in DOMAIN c}
    OBVIOUS
  <2>10. Len(c) = Min({k, Cardinality(E)})
    <3>1. k \in Int /\ l \in Int
      OBVIOUS
    <3>2. Min({k, l}) = IF k <= l THEN k ELSE l
      BY <3>1, MaxOfTwo
    <3> QED
      BY <2>3, <2>4, <2>6, <3>2
  <2>11. I \subseteq E
    BY <2>8, <2>9
  <2>12. ASSUME NEW m \in DOMAIN c, NEW n \in DOMAIN c, m < n
         PROVE  c[m].item # c[n].item /\ Score(c[m].item) >= Score(c[n].item)
    <3>1. PICK a \in 1 .. l : c[m] = s[a]
      BY <2>6
    <3>2. PICK b \in 1 .. l : c[n] = s[b]
      BY <2>6
    <3>3. m # n
      BY <2>1, <2>12
    <3>4. c[m] # c[n]
      BY <2>6, <3>3 DEF Distinct
    <3>5. s[a].item # s[b].item
      <4>1. a # b
        BY <3>1, <3>2, <3>4
      <4>2. \A x, y \in DOMAIN s : x # y => s[x].item # s[y].item
        BY <2>1 DEF EntriesOf
      <4> QED
        BY <2>5, <4>1, <4>2
    <3>6. c[m].score >= c[n].score
      BY <2>1, <2>12 DEF Falls
    <3> QED
      BY <2>8, <3>1, <3>2, <3>5, <3>6
  <2>13. ASSUME NEW i \in E \ I, NEW j \in I
         PROVE  /\ Score(i) <= Score(j) /\ Score(i) \in Int /\ Score(j) \in Int
                /\ AsGood(offer.candidates[i], offer.candidates[j]) => Score(i) >= Score(j)
    <3>1. PICK m \in 1 .. l : s[m].item = i
      BY <2>3, <2>5
    <3>2. PICK n \in DOMAIN c : c[n].item = j
      BY <2>9
    <3>3. ~Has(c, s[m])
      BY <2>9, <2>13, <3>1 DEF Has
    <3>4. s[m].score <= c[n].score
      BY <2>6, <3>3 DEF NoneBelow
    <3>5. Score(i) <= Score(j)
      BY <2>7, <2>8, <3>1, <3>2, <3>4
    <3>6. Score(i) \in Int /\ Score(j) \in Int
      BY <2>1, <2>7, <2>8, <3>1, <3>2, ScoresAre
    <3>7. ASSUME AsGood(offer.candidates[i], offer.candidates[j]) PROVE Score(i) >= Score(j)
      <4>1. PICK n0 \in Nat : n0 = MostBought
        BY <2>1, MostBoughtIs DEF MostBought, OfferType
      <4>2. offer.candidates[i] \in Candidate /\ offer.candidates[j] \in Candidate
        <5>1. o.candidates \in Seq(Candidate)
          BY <2>1 DEF OfferType
        <5>2. i \in DOMAIN o.candidates /\ j \in DOMAIN o.candidates
          BY <2>2, <2>11 DEF EligibleIn
        <5> QED
          BY <2>1, <5>1, <5>2
      <4>3. ScoreCandidate(offer.candidates[i], n0) >= ScoreCandidate(offer.candidates[j], n0)
        BY <3>7, <4>1, <4>2, GoodScoresMore
      <4> QED
        BY <4>1, <4>3 DEF Score
    <3> QED
      BY <3>5, <3>6, <3>7
  <2>14. ASSUME NEW i \in E \ I, NEW j \in I
         PROVE  /\ Score(i) <= Score(j)
                /\ AsGood(offer.candidates[i], offer.candidates[j]) => Score(i) = Score(j)
    BY <2>13
  <2>15. /\ k = offer.k /\ c = chosen /\ E = Eligible
    BY <2>1, <2>2
  <2>16. /\ Len(chosen) = Min({offer.k, Cardinality(Eligible)})
         /\ I \subseteq Eligible
         /\ \A m, n \in DOMAIN chosen : m < n =>
               chosen[m].item # chosen[n].item /\ Score(chosen[m].item) >= Score(chosen[n].item)
         /\ \A i \in Eligible \ I, j \in I :
               /\ Score(i) <= Score(j)
               /\ AsGood(offer.candidates[i], offer.candidates[j]) => Score(i) = Score(j)
    BY <2>10, <2>11, <2>12, <2>14, <2>15
  <2>17. I = {chosen[n].item : n \in DOMAIN chosen}
    BY <2>9, <2>15
  <2> QED
    BY <2>16, <2>17, Zenon DEF BestAreOffered
<1>2. ASSUME ChoiceInv PROVE BestAreOffered
  <2>1. CASE doing = "done"
    BY <1>1, <1>2, <2>1
  <2>2. CASE doing # "done"
    BY <2>2 DEF BestAreOffered
  <2> QED
    BY <2>1, <2>2
<1> QED
  BY <1>2, ChoiceAlways, PTL

-----------------------------------------------------------------------------
(* The items that lines take.  Joined sequences of sequences, one at a     *)
(* time.                                                                   *)
Agree(r, s, n) == \A i \in 1 .. n : r[i] = s[i]

LEMMA JoinsAgree ==
    ASSUME NEW r, NEW s, NEW n \in Nat, NEW m \in Nat, n <= m, Agree(r, s, n),
           NEW f, Joins(f, r, n), NEW g, Joins(g, s, m)
    PROVE  Agree(f, g, n)
<1>1. PICK G : G = {i \in Nat : i \in 1 .. n => f[i] = g[i]}
  OBVIOUS
<1>2. 0 \in G
  BY <1>1
<1>3. ASSUME NEW i \in Nat, i \in G PROVE i + 1 \in G
  <2>1. ASSUME i + 1 \in 1 .. n PROVE f[i + 1] = g[i + 1]
    <3>1. PICK j \in 1 .. n : j = i + 1 /\ j \in 1 .. m
      BY <2>1
    <3>2. /\ f[j] = IF j = 1 THEN r[j] ELSE f[j - 1] \o r[j]
          /\ g[j] = IF j = 1 THEN s[j] ELSE g[j - 1] \o s[j]
      BY <3>1 DEF Joins
    <3>3. CASE j = 1
      BY <3>1, <3>2, <3>3 DEF Agree
    <3>4. CASE j # 1
      <4>1. j - 1 = i /\ i \in 1 .. n
        BY <3>1, <3>4
      <4> QED
        BY <1>1, <1>3, <3>1, <3>2, <3>4, <4>1 DEF Agree
    <3> QED
      BY <3>3, <3>4
  <2> QED
    BY <1>1, <2>1
<1>4. \A i \in Nat : i \in G
  BY <1>2, <1>3, NatSetInduction
<1>5. ASSUME NEW i \in 1 .. n PROVE f[i] = g[i]
  <2>1. i \in Nat
    OBVIOUS
  <2> QED
    BY <1>1, <1>4, <2>1
<1> QED
  BY <1>5 DEF Agree

LEMMA FlattenAppend ==
    ASSUME NEW S, NEW seqs \in Seq(Seq(S)), NEW x \in Seq(S)
    PROVE  FlattenSeq(Append(seqs, x)) = FlattenSeq(seqs) \o x
<1>1. PICK t : t = Append(seqs, x)
  OBVIOUS
<1>2. PICK n \in Nat : n = Len(seqs) /\ DOMAIN seqs = 1 .. n
  OBVIOUS
<1>3. /\ t \in Seq(Seq(S)) /\ Len(t) = n + 1 /\ t[n + 1] = x
      /\ \A i \in 1 .. n : seqs[i] = t[i]
  BY <1>1, <1>2
<1>4. PICK g : g = CHOOSE h : Joins(h, t, n + 1)
  OBVIOUS
<1>5. Joins(g, t, n + 1)
  <2>1. n + 1 \in Nat
    OBVIOUS
  <2>2. \E h : Joins(h, t, n + 1)
    BY <2>1, JoinsExist
  <2> QED
    BY <1>4, <2>2
<1>6. FlattenSeq(t) = g[n + 1]
  BY <1>3, <1>4 DEF FlattenSeq, Joins
<1>7. g[n + 1] = IF n + 1 = 1 THEN x ELSE g[n] \o x
  <2>1. n + 1 \in 1 .. n + 1 /\ (n + 1) - 1 = n
    OBVIOUS
  <2> QED
    BY <1>3, <1>5, <2>1 DEF Joins
<1>8. CASE n = 0
  <2>1. FlattenSeq(seqs) = seqs /\ seqs = << >>
    BY <1>2, <1>8 DEF FlattenSeq
  <2>2. << >> \o x = x
    OBVIOUS
  <2> QED
    BY <1>1, <1>6, <1>7, <1>8, <2>1, <2>2
<1>9. CASE n # 0
  <2>1. PICK f : f = CHOOSE h : Joins(h, seqs, n)
    OBVIOUS
  <2>2. Joins(f, seqs, n)
    BY <2>1, JoinsExist
  <2>3. FlattenSeq(seqs) = f[n]
    BY <1>2, <1>9, <2>1 DEF FlattenSeq, Joins
  <2>4. \A i \in 1 .. n : f[i] = g[i]
    <3>1. n <= n + 1 /\ n + 1 \in Nat
      OBVIOUS
    <3>2. Agree(seqs, t, n)
      BY <1>3 DEF Agree
    <3>3. Agree(f, g, n)
      BY <1>5, <2>2, <3>1, <3>2, JoinsAgree
    <3> QED
      BY <3>3 DEF Agree
  <2>5. f[n] = g[n]
    BY <1>9, <2>4
  <2> QED
    BY <1>1, <1>6, <1>7, <1>9, <2>3, <2>5
<1> QED
  BY <1>8, <1>9

LEMMA PositiveAppend ==
    ASSUME NEW S, NEW s \in Seq(S), NEW x \in S
    PROVE  Positive(Append(s, x)) = IF x.qty > 0 THEN Append(Positive(s), x) ELSE Positive(s)
<1>1. PICK n \in Nat : n = Len(s) /\ DOMAIN s = 1 .. n
  OBVIOUS
<1>2. PICK t : t = Append(s, x)
  OBVIOUS
<1>3. t \in Seq(S) /\ DOMAIN t = 1 .. n + 1 /\ t[n + 1] = x /\ \A i \in 1 .. n : t[i] = s[i]
  BY <1>1, <1>2
<1>4. PICK parts : parts = [i \in DOMAIN s |-> IF s[i].qty > 0 THEN <<s[i]>> ELSE << >>]
  OBVIOUS
<1>5. PICK more : more = [i \in DOMAIN t |-> IF t[i].qty > 0 THEN <<t[i]>> ELSE << >>]
  OBVIOUS
<1>6. PICK y : y = IF x.qty > 0 THEN <<x>> ELSE << >>
  OBVIOUS
<1>7. y \in Seq(S)
  BY <1>6
<1>8. parts \in Seq(Seq(S)) /\ Len(parts) = n
  <2>1. \A i \in 1 .. n : parts[i] \in Seq(S)
    BY <1>1, <1>4
  <2>2. parts = [i \in 1 .. n |-> parts[i]]
    BY <1>1, <1>4
  <2> QED
    BY <2>1, <2>2, SeqDef
<1>9. more = Append(parts, y)
  <2>1. PICK z : z = Append(parts, y)
    OBVIOUS
  <2>2. /\ z = [i \in 1 .. n + 1 |-> z[i]] /\ z[n + 1] = y
        /\ \A i \in 1 .. n : z[i] = parts[i]
    <3>1. z \in Seq(Seq(S)) /\ Len(z) = n + 1
      BY <1>7, <1>8, <2>1
    <3>2. z = [i \in 1 .. n + 1 |-> z[i]]
      BY <3>1
    <3>3. z[n + 1] = y /\ \A i \in 1 .. n : z[i] = parts[i]
      BY <1>7, <1>8, <2>1
    <3> QED
      BY <3>2, <3>3
  <2>3. \A i \in 1 .. n + 1 : more[i] = z[i]
    <3>1. ASSUME NEW i \in 1 .. n + 1 PROVE more[i] = z[i]
      <4>1. CASE i = n + 1
        BY <1>3, <1>5, <1>6, <2>2, <4>1
      <4>2. CASE i # n + 1
        <5>1. i \in 1 .. n
          BY <4>2
        <5> QED
          BY <1>1, <1>3, <1>4, <1>5, <2>2, <5>1
      <4> QED
        BY <4>1, <4>2
    <3> QED
      BY <3>1
  <2>4. more = [i \in 1 .. n + 1 |-> more[i]]
    BY <1>3, <1>5
  <2> QED
    BY <2>1, <2>2, <2>3, <2>4
<1>10. Positive(t) = Positive(s) \o y
  <2>1. Positive(t) = FlattenSeq(more) /\ Positive(s) = FlattenSeq(parts)
    BY <1>4, <1>5 DEF Positive
  <2> QED
    BY <1>7, <1>8, <1>9, <2>1, FlattenAppend
<1>11. Positive(s) \in Seq(S)
  BY PositiveType
<1>12. PICK q \in Seq(S) : q = Positive(s)
  BY <1>11
<1>13. q \o << >> = q /\ q \o <<x>> = Append(q, x)
  OBVIOUS
<1> QED
  BY <1>2, <1>6, <1>10, <1>12, <1>13

-----------------------------------------------------------------------------
(* What the lines have taken so far: whole rows of items, and a part of a  *)
(* row.                                                                    *)
ItemAt(ls, given, i, j) == [line |-> i, row |-> <<given[j].warehouse, Product>>,
                            qty |-> Overlap(ls, i, given, j)]

RowTo(ls, given, i, m) == IF ls[i].product = Product
                          THEN [j \in 1 .. m |-> ItemAt(ls, given, i, j)] ELSE << >>

Rows(ls, given, n) == FlattenSeq([k \in 1 .. n |-> RowTo(ls, given, k, Len(given))])

Taken(ls, given, i, m) == Rows(ls, given, i - 1) \o RowTo(ls, given, i, m)

OneItem == ItemOf(Warehouses, Products)

LEMMA RowType ==
    ASSUME NEW ls \in Seq(OrderLine(Products)), NEW given \in Seq(Splitting(Warehouses)),
           NEW i \in DOMAIN ls
    PROVE  /\ \A j \in DOMAIN given : ItemAt(ls, given, i, j) \in OneItem
           /\ \A m \in 0 .. Len(given) :
                 RowTo(ls, given, i, m) \in Seq(OneItem)
<1>1. ASSUME NEW j \in DOMAIN given PROVE ItemAt(ls, given, i, j) \in OneItem
  <2>1. given[j] \in Splitting(Warehouses)
    OBVIOUS
  <2>2. PICK n \in Nat : n = Overlap(ls, i, given, j)
    BY OverlapType
  <2>3. i \in Nat /\ Product \in Products
    BY CalculationsAssumption DEF CalculationsAssumption
  <2> QED
    BY <2>1, <2>2, <2>3 DEF ItemAt, OneItem, ItemOf, Splitting
<1>2. ASSUME NEW m \in 0 .. Len(given) PROVE RowTo(ls, given, i, m) \in Seq(OneItem)
  <2>1. \A j \in 1 .. m : ItemAt(ls, given, i, j) \in OneItem
    BY <1>1
  <2>2. [j \in 1 .. m |-> ItemAt(ls, given, i, j)] \in Seq(OneItem)
    BY <2>1
  <2> QED
    BY <2>2 DEF RowTo
<1> QED
  BY <1>1, <1>2

LEMMA RowsType ==
    ASSUME NEW ls \in Seq(OrderLine(Products)), NEW given \in Seq(Splitting(Warehouses)),
           NEW n \in 0 .. Len(ls)
    PROVE  /\ Rows(ls, given, n) \in Seq(OneItem)
           /\ [k \in 1 .. n |-> RowTo(ls, given, k, Len(given))] \in Seq(Seq(OneItem))
<1>1. \A k \in 1 .. n : RowTo(ls, given, k, Len(given)) \in Seq(OneItem)
  <2>1. \A k \in 1 .. n : k \in DOMAIN ls
    OBVIOUS
  <2>2. Len(given) \in 0 .. Len(given)
    OBVIOUS
  <2> QED
    BY <2>1, <2>2, RowType
<1>2. [k \in 1 .. n |-> RowTo(ls, given, k, Len(given))] \in Seq(Seq(OneItem))
  BY <1>1
<1> QED
  BY <1>2, FlattenType DEF Rows

(* One more row, and one more item of it.                                  *)
LEMMA NextRow ==
    ASSUME NEW ls \in Seq(OrderLine(Products)), NEW given \in Seq(Splitting(Warehouses)),
           NEW i \in DOMAIN ls
    PROVE  /\ Taken(ls, given, i, Len(given)) = Rows(ls, given, i)
           /\ Taken(ls, given, i, 0) = Rows(ls, given, i - 1)
<1>1. PICK n \in Nat : n = i - 1 /\ n + 1 = i /\ n \in 0 .. Len(ls) /\ i \in 0 .. Len(ls)
  <2>1. i - 1 \in Nat /\ (i - 1) + 1 = i /\ i - 1 \in 0 .. Len(ls) /\ i \in 0 .. Len(ls)
    OBVIOUS
  <2> QED
    BY <2>1
<1>2. PICK r : r = RowTo(ls, given, i, Len(given))
  OBVIOUS
<1>3. r \in Seq(OneItem)
  <2>1. Len(given) \in 0 .. Len(given)
    OBVIOUS
  <2> QED
    BY <1>2, <2>1, RowType
<1>4. PICK R, Q : /\ R = [k \in 1 .. n |-> RowTo(ls, given, k, Len(given))]
                  /\ Q = [k \in 1 .. n + 1 |-> RowTo(ls, given, k, Len(given))]
  OBVIOUS
<1>5. R \in Seq(Seq(OneItem)) /\ Len(R) = n
  <2>1. R \in Seq(Seq(OneItem))
    BY <1>1, <1>4, RowsType
  <2> QED
    BY <1>4, <2>1
<1>6. Q = Append(R, r)
  <2>1. PICK z : z = Append(R, r)
    OBVIOUS
  <2>2. z = [k \in 1 .. n + 1 |-> z[k]] /\ z[n + 1] = r /\ \A k \in 1 .. n : z[k] = R[k]
    <3>1. z \in Seq(Seq(OneItem)) /\ Len(z) = n + 1
      BY <1>3, <1>5, <2>1
    <3>2. z = [k \in 1 .. n + 1 |-> z[k]]
      BY <3>1
    <3>3. z[n + 1] = r /\ \A k \in 1 .. n : z[k] = R[k]
      BY <1>3, <1>5, <2>1
    <3> QED
      BY <3>2, <3>3
  <2>3. ASSUME NEW k \in 1 .. n + 1 PROVE Q[k] = z[k]
    <3>1. CASE k = n + 1
      BY <1>1, <1>2, <1>4, <2>2, <3>1
    <3>2. CASE k # n + 1
      <4>1. k \in 1 .. n
        BY <3>2
      <4> QED
        BY <1>4, <2>2, <4>1
    <3> QED
      BY <3>1, <3>2
  <2>4. Q = [k \in 1 .. n + 1 |-> Q[k]]
    BY <1>4
  <2> QED
    BY <2>1, <2>2, <2>3, <2>4
<1>7. FlattenSeq(Q) = FlattenSeq(R) \o r
  BY <1>3, <1>5, <1>6, FlattenAppend
<1>8. Rows(ls, given, i) = FlattenSeq(Q) /\ Rows(ls, given, i - 1) = FlattenSeq(R)
  BY <1>1, <1>4 DEF Rows
<1>9. RowTo(ls, given, i, 0) = << >>
  BY DEF RowTo
<1>10. PICK q \in Seq(OneItem) : q = Rows(ls, given, i - 1)
  BY <1>1, RowsType
<1>11. q \o << >> = q
  OBVIOUS
<1> QED
  BY <1>2, <1>7, <1>8, <1>9, <1>10, <1>11 DEF Taken

LEMMA NextItem ==
    ASSUME NEW ls \in Seq(OrderLine(Products)), NEW given \in Seq(Splitting(Warehouses)),
           NEW i \in DOMAIN ls, NEW j \in DOMAIN given, NEW m \in Nat, m = j - 1
    PROVE  Positive(Taken(ls, given, i, j)) =
              IF ls[i].product = Product /\ Overlap(ls, i, given, j) > 0
              THEN Append(Positive(Taken(ls, given, i, m)), ItemAt(ls, given, i, j))
              ELSE Positive(Taken(ls, given, i, m))
<1>1. i - 1 \in 0 .. Len(ls) /\ m \in 0 .. Len(given) /\ j \in 0 .. Len(given) /\ j = m + 1
  OBVIOUS
<1>2. PICK q \in Seq(OneItem) : q = Rows(ls, given, i - 1)
  BY <1>1, RowsType
<1>3. PICK r \in Seq(OneItem) : r = RowTo(ls, given, i, m)
  BY <1>1, RowType
<1>4. PICK x \in OneItem : x = ItemAt(ls, given, i, j)
  BY RowType
<1>5. q \o r \in Seq(OneItem) /\ Taken(ls, given, i, m) = q \o r
  BY <1>2, <1>3 DEF Taken
<1>6. CASE ls[i].product = Product
  <2>1. RowTo(ls, given, i, j) = Append(r, x)
    <3>1. PICK z : z = Append(r, x)
      OBVIOUS
    <3>2. r = [k \in 1 .. m |-> ItemAt(ls, given, i, k)] /\ Len(r) = m
      <4>1. r = [k \in 1 .. m |-> ItemAt(ls, given, i, k)]
        BY <1>3, <1>6 DEF RowTo
      <4>2. DOMAIN r = 1 .. m
        BY <4>1
      <4> QED
        BY <4>1, <4>2
    <3>3. z = [k \in 1 .. m + 1 |-> z[k]] /\ z[m + 1] = x /\ \A k \in 1 .. m : z[k] = r[k]
      BY <3>1, <3>2
    <3>4. PICK s : s = [k \in 1 .. m + 1 |-> ItemAt(ls, given, i, k)]
      OBVIOUS
    <3>5. ASSUME NEW k \in 1 .. m + 1 PROVE s[k] = z[k]
      <4>1. CASE k = m + 1
        BY <1>1, <1>4, <3>3, <3>4, <4>1
      <4>2. CASE k # m + 1
        <5>1. k \in 1 .. m
          BY <4>2
        <5> QED
          BY <3>2, <3>3, <3>4, <5>1
      <4> QED
        BY <4>1, <4>2
    <3>6. s = [k \in 1 .. m + 1 |-> s[k]]
      BY <3>4
    <3>7. s = z
      BY <3>3, <3>5, <3>6
    <3> QED
      BY <1>1, <1>6, <3>1, <3>4, <3>7 DEF RowTo
  <2>2. q \o Append(r, x) = Append(q \o r, x)
    OBVIOUS
  <2>3. Taken(ls, given, i, j) = Append(q \o r, x)
    BY <1>2, <2>1, <2>2 DEF Taken
  <2>4. x.qty = Overlap(ls, i, given, j)
    BY <1>4 DEF ItemAt
  <2>5. Positive(Append(q \o r, x)) = IF x.qty > 0 THEN Append(Positive(q \o r), x) ELSE Positive(q \o r)
    BY <1>5, PositiveAppend
  <2> QED
    BY <1>4, <1>5, <1>6, <2>3, <2>4, <2>5
<1>7. CASE ls[i].product # Product
  <2>1. RowTo(ls, given, i, j) = << >> /\ RowTo(ls, given, i, m) = << >>
    BY <1>7 DEF RowTo
  <2> QED
    BY <1>7, <2>1 DEF Taken
<1> QED
  BY <1>6, <1>7

-----------------------------------------------------------------------------
(* Units are handed out in order, so what has been given is a number: a    *)
(* and b are wanted before a line and with it, of z units in all; the line *)
(* has come to unit x.                                                     *)
GivenTo(a, b, x, z) == IF z <= a THEN z ELSE Reach(a, b, x)

(* What is left of the units from x to y when c have been given.           *)
LeftOf(x, y, c) == y - Reach(x, y, c)

(* The line looks at the split with the units from x to y: it takes what   *)
(* is left of it, or what it wants.                                        *)
TakesInOrder(x, y, z, c, d) ==
    /\ \A u, v \in Nat : u <= v /\ v <= z /\ (v <= x \/ y <= u)
                           => LeftOf(u, v, d) = LeftOf(u, v, c)
    /\ \A u, v \in Nat : u <= v /\ v <= x => LeftOf(u, v, c) <= 0

TakesOrPasses(a, b, x, y, z) ==
    LET l == b - Reach(a, b, x)
        c == GivenTo(a, b, x, z)
        d == GivenTo(a, b, y, z)
        n == LeftOf(x, y, c)
        t == IF l <= n THEN l ELSE n
    IN  /\ n <= 0 => Reach(a, b, y) = Reach(a, b, x) /\ d = c
        /\ n > 0 => /\ Reach(a, b, y) - Reach(a, b, x) = t /\ t > 0
                    /\ LeftOf(x, y, d) = n - t /\ b - Reach(a, b, y) = l - t
        /\ TakesInOrder(x, y, z, c, d)

LEMMA OneTake ==
    ASSUME NEW a \in Nat, NEW b \in Nat, a <= b, NEW x \in Nat, NEW y \in Nat, x <= y,
           NEW z \in Nat, y <= z, b - Reach(a, b, x) > 0
    PROVE  TakesOrPasses(a, b, x, y, z)
<1>0. PICK l, c, d, n : l = b - Reach(a, b, x) /\ c = GivenTo(a, b, x, z)
                        /\ d = GivenTo(a, b, y, z) /\ n = LeftOf(x, y, c)
  OBVIOUS
<1>t. PICK t : t = IF l <= n THEN l ELSE n
  OBVIOUS
<1>1. /\ Reach(a, b, x) = IF x >= b THEN b ELSE IF x <= a THEN a ELSE x
      /\ Reach(a, b, y) = IF y >= b THEN b ELSE IF y <= a THEN a ELSE y
  BY DEF Reach
<1>2. x < b /\ l > 0 /\ l = b - Reach(a, b, x) /\ l \in Int
  BY <1>0, <1>1
<1>3. /\ c = IF z <= a THEN z ELSE IF x <= a THEN a ELSE x
      /\ d = IF z <= a THEN z ELSE IF y >= b THEN b ELSE IF y <= a THEN a ELSE y
  BY <1>0, <1>1, <1>2 DEF GivenTo
<1>c. c \in Int /\ d \in Int
  BY <1>3
<1>4. n = y - (IF c >= y THEN y ELSE IF c <= x THEN x ELSE c)
  BY <1>0 DEF LeftOf, Reach
<1>n. n \in Int /\ t \in Int /\ t = IF l <= n THEN l ELSE n
  BY <1>t, <1>c, <1>2, <1>4
<1>5. c >= x /\ c <= d
  BY <1>1, <1>2, <1>3, <1>c
<1>6. n <= 0 => Reach(a, b, y) = Reach(a, b, x) /\ d = c
  BY <1>1, <1>2, <1>3, <1>4, <1>c, <1>n
<1>7. n > 0 => /\ Reach(a, b, y) - Reach(a, b, x) = t /\ t > 0
               /\ b - Reach(a, b, y) = l - t
  BY <1>1, <1>2, <1>3, <1>4, <1>c, <1>n
<1>8. n > 0 => LeftOf(x, y, d) = n - t
  <2>1. LeftOf(x, y, d) = y - (IF d >= y THEN y ELSE IF d <= x THEN x ELSE d)
    BY DEF LeftOf, Reach
  <2> QED
    BY <1>1, <1>2, <1>3, <1>4, <1>c, <1>n, <2>1
<1>9. ASSUME NEW u \in Nat, NEW v \in Nat, u <= v, v <= z, v <= x \/ y <= u
      PROVE  LeftOf(u, v, d) = LeftOf(u, v, c)
  <2>1. /\ LeftOf(u, v, d) = v - (IF d >= v THEN v ELSE IF d <= u THEN u ELSE d)
        /\ LeftOf(u, v, c) = v - (IF c >= v THEN v ELSE IF c <= u THEN u ELSE c)
    BY DEF LeftOf, Reach
  <2>2. CASE v <= x
    BY <1>5, <1>9, <1>c, <2>1, <2>2
  <2>3. CASE y <= u
    <3>1. CASE z <= a
      BY <1>3, <2>1, <3>1
    <3>2. CASE z > a /\ y > a
      BY <1>3, <1>5, <1>9, <1>c, <2>1, <2>3, <3>2
    <3>3. CASE z > a /\ y <= a
      BY <1>3, <1>5, <1>9, <1>c, <2>1, <2>3, <3>3
    <3> QED
      BY <3>1, <3>2, <3>3
  <2> QED
    BY <1>9, <2>2, <2>3
<1>10. ASSUME NEW u \in Nat, NEW v \in Nat, u <= v, v <= x PROVE LeftOf(u, v, c) <= 0
  BY <1>5, <1>10, <1>c DEF LeftOf, Reach
<1>11. TakesInOrder(x, y, z, c, d)
  BY <1>9, <1>10 DEF TakesInOrder
<1> QED
  BY <1>0, <1>t, <1>6, <1>7, <1>8, <1>11 DEF TakesOrPasses

(* The line has enough, or has looked at every split.                      *)
ReachesNoMore(a, b, x, z) ==
    \A u, v \in Nat : x <= u /\ u <= v /\ v <= z => Reach(a, b, v) = Reach(a, b, u)

LineIsServed(a, b, x, z) ==
    /\ ReachesNoMore(a, b, x, z)
    /\ \A e \in Nat : b <= e => /\ GivenTo(b, e, 0, z) = GivenTo(a, b, x, z)
                                /\ e - Reach(b, e, 0) = e - b

LEMMA OneLineOn ==
    ASSUME NEW a \in Nat, NEW b \in Nat, a <= b, NEW x \in Nat,
           NEW z \in Nat, x <= z, b - Reach(a, b, x) <= 0 \/ x = z
    PROVE  LineIsServed(a, b, x, z)
<1> SUFFICES ASSUME NEW e \in Nat, b <= e
             PROVE  /\ ReachesNoMore(a, b, x, z)
                    /\ GivenTo(b, e, 0, z) = GivenTo(a, b, x, z)
                    /\ e - Reach(b, e, 0) = e - b
  BY DEF LineIsServed
<1>1. Reach(b, e, 0) = b
  BY DEF Reach
<1>2. Reach(a, b, x) = IF x >= b THEN b ELSE IF x <= a THEN a ELSE x
  BY DEF Reach
<1>3. GivenTo(b, e, 0, z) = IF z <= b THEN z ELSE b
  BY <1>1 DEF GivenTo
<1>4. GivenTo(a, b, x, z) = IF z <= a THEN z ELSE IF x >= b THEN b ELSE IF x <= a THEN a ELSE x
  BY <1>2 DEF GivenTo
<1>5. GivenTo(b, e, 0, z) = GivenTo(a, b, x, z)
  BY <1>2, <1>3, <1>4
<1>6. ASSUME NEW u \in Nat, NEW v \in Nat, x <= u, u <= v, v <= z
      PROVE  Reach(a, b, v) = Reach(a, b, u)
  <2>1. /\ Reach(a, b, u) = IF u >= b THEN b ELSE IF u <= a THEN a ELSE u
        /\ Reach(a, b, v) = IF v >= b THEN b ELSE IF v <= a THEN a ELSE v
    BY DEF Reach
  <2> QED
    BY <1>2, <1>6, <2>1
<1> QED
  BY <1>1, <1>5, <1>6 DEF ReachesNoMore

-----------------------------------------------------------------------------
(* No split before k names the warehouse that split k names.               *)
NamedFirst(sp, k) == \A j \in 1 .. k - 1 : sp[j].warehouse # sp[k].warehouse

LEMMA FirstToName ==
    ASSUME NEW W, NEW sp \in Seq(Splitting(W)), NEW k \in DOMAIN sp
    PROVE  /\ \E f \in 1 .. k : NamedFirst(sp, f) /\ sp[f].warehouse = sp[k].warehouse
           /\ Effective(sp)[k].warehouse = sp[k].warehouse
           /\ Effective(sp)[k].qty =
                 IF NamedFirst(sp, k) THEN sp[LastOfWarehouse(sp, sp[k].warehouse)].qty ELSE 0
<1>1. PICK N : N = {j \in DOMAIN sp : sp[j].warehouse = sp[k].warehouse}
  OBVIOUS
<1>2. DOMAIN sp = 1 .. Len(sp) /\ Len(sp) \in Nat /\ k \in N /\ N \subseteq DOMAIN sp
  BY <1>1
<1>3. IsFiniteSet(N) /\ N # {} /\ N \subseteq Int
  <2>1. IsFiniteSet(1 .. Len(sp))
    BY <1>2, FS_Interval
  <2>2. IsFiniteSet(N)
    BY <1>2, <2>1, FS_Subset
  <2> QED
    BY <1>2, <2>2
<1>4. PICK f : f = Min(N)
  OBVIOUS
<1>5. f \in N /\ \A y \in N : f <= y
  BY <1>3, <1>4, MaxMinIsIn
<1>6. f \in 1 .. k /\ sp[f].warehouse = sp[k].warehouse
  BY <1>1, <1>2, <1>5
<1>7. NamedFirst(sp, f)
  <2>1. ASSUME NEW j \in 1 .. f - 1 PROVE sp[j].warehouse # sp[f].warehouse
    <3>1. j \in DOMAIN sp /\ ~(f <= j)
      BY <1>2, <1>6
    <3> QED
      BY <1>1, <1>5, <1>6, <3>1
  <2> QED
    BY <2>1 DEF NamedFirst
<1>8. NamedFirst(sp, k) <=> k = f
  <2>1. ASSUME k # f PROVE ~NamedFirst(sp, k)
    <3>1. f \in 1 .. k - 1
      BY <1>2, <1>6, <2>1
    <3> QED
      BY <1>6, <3>1 DEF NamedFirst
  <2> QED
    BY <1>7, <2>1
<1>9. Effective(sp)[k] = [sp[k] EXCEPT !.qty = IF k = f THEN sp[Max(N)].qty ELSE 0]
  BY <1>1, <1>4 DEF Effective
<1>10. sp[k] \in Splitting(W)
  OBVIOUS
<1>11. LastOfWarehouse(sp, sp[k].warehouse) = Max(N)
  BY <1>1 DEF LastOfWarehouse
<1> QED
  BY <1>6, <1>7, <1>8, <1>9, <1>10, <1>11 DEF Splitting

(* The units of the first n splits.                                        *)
Upto(sp, n) == Total(SubSeq(Effective(sp), 1, n))

LEMMA UptoRises ==
    ASSUME NEW W, NEW sp \in Seq(Splitting(W))
    PROVE  /\ Effective(sp) \in Seq(Splitting(W)) /\ Len(Effective(sp)) = Len(sp)
           /\ DOMAIN Effective(sp) = DOMAIN sp
           /\ Upto(sp, 0) = 0
           /\ \A n \in 0 .. Len(sp) : Upto(sp, n) \in Nat
           /\ \A n \in 1 .. Len(sp) : /\ Upto(sp, n) = Upto(sp, n - 1) + Effective(sp)[n].qty
                                      /\ Effective(sp)[n].qty \in Nat
           /\ \A m, n \in 0 .. Len(sp) : m <= n => Upto(sp, m) <= Upto(sp, n)
<1>1. PICK e \in Seq(Splitting(W)) : e = Effective(sp)
  BY EffectiveType
<1>2. PICK l \in Nat : l = Len(sp) /\ DOMAIN sp = 1 .. l
  OBVIOUS
<1>3. DOMAIN e = 1 .. l /\ Len(e) = l
  <2>1. DOMAIN e = 1 .. l
    BY <1>1, <1>2 DEF Effective
  <2> QED
    BY <2>1
<1>4. PICK u : u = [n \in 0 .. l |-> Upto(sp, n)]
  OBVIOUS
<1>5. /\ u[0] = 0 /\ \A n \in 0 .. l : u[n] \in Nat
      /\ \A n \in 1 .. l : u[n] = u[n - 1] + e[n].qty /\ e[n].qty \in Nat
  <2>1. \A n \in 1 .. l : n \in 0 .. l /\ n - 1 \in 0 .. l /\ e[n] \in Splitting(W)
    BY <1>3
  <2>2. \A n \in 1 .. l : e[n].qty \in Nat
    BY <2>1 DEF Splitting
  <2>3. \A n \in 0 .. l : u[n] = Total(SubSeq(e, 1, n))
    BY <1>1, <1>4 DEF Upto
  <2>4. 0 \in 0 .. l
    OBVIOUS
  <2>5. /\ Total(SubSeq(e, 1, 0)) = 0
        /\ \A n \in 0 .. l : Total(SubSeq(e, 1, n)) \in Nat
        /\ \A n \in 1 .. l : Total(SubSeq(e, 1, n)) = Total(SubSeq(e, 1, n - 1)) + e[n].qty
    BY <1>3, TotalsRise
  <2> QED
    BY <2>1, <2>2, <2>3, <2>4, <2>5
<1>6. PICK G : G = {d \in Nat : \A m \in 0 .. l : m + d <= l => u[m] <= u[m + d]}
  OBVIOUS
<1>7. 0 \in G
  BY <1>5, <1>6
<1>8. ASSUME NEW d \in Nat, d \in G PROVE d + 1 \in G
  <2>1. ASSUME NEW m \in 0 .. l, m + (d + 1) <= l PROVE u[m] <= u[m + (d + 1)]
    <3>1. PICK n \in 1 .. l : n = m + (d + 1) /\ n - 1 = m + d /\ m + d <= l /\ m + d \in 0 .. l
      BY <2>1
    <3>2. u[m] <= u[n - 1] /\ u[n] = u[n - 1] + e[n].qty
      BY <1>5, <1>6, <1>8, <3>1
    <3>3. u[m] \in Nat /\ u[n - 1] \in Nat /\ e[n].qty \in Nat
      BY <1>5, <3>1
    <3> QED
      BY <3>1, <3>2, <3>3
  <2> QED
    BY <1>6, <2>1
<1>9. \A d \in Nat : d \in G
  BY <1>7, <1>8, NatSetInduction
<1>10. ASSUME NEW m \in 0 .. l, NEW n \in 0 .. l, m <= n PROVE u[m] <= u[n]
  <2>1. PICK d \in Nat : d = n - m
    BY <1>10
  <2>2. m + d = n /\ m + d <= l
    BY <2>1
  <2>3. \A k \in 0 .. l : k + d <= l => u[k] <= u[k + d]
    BY <1>6, <1>9
  <2> QED
    BY <2>2, <2>3
<1>11. \A n \in 1 .. l : n \in 0 .. l /\ n - 1 \in 0 .. l
  OBVIOUS
<1>12. 0 \in 0 .. l
  OBVIOUS
<1> QED
  BY <1>1, <1>2, <1>3, <1>4, <1>5, <1>10, <1>11, <1>12

(* The loop at line i and split j, with lf still wanted by the line, what  *)
(* remains at the warehouses and the items so far.                         *)
GivenAt(ls, sp, i, j) ==
    GivenTo(QtyOf(ls, Product, i - 1), QtyOf(ls, Product, i), Upto(sp, j - 1), Upto(sp, Len(sp)))

RemainsAt(sp, c, rem) ==
    /\ DOMAIN rem = {sp[k].warehouse : k \in DOMAIN sp}
    /\ \A k \in DOMAIN sp : NamedFirst(sp, k) =>
          rem[sp[k].warehouse] = LeftOf(Upto(sp, k - 1), Upto(sp, k), c)

AtSplit(ls, sp, i, j, lf, rem, its) ==
    /\ j \in 1 .. Len(sp) + 1
    /\ lf = QtyOf(ls, Product, i)
              - Reach(QtyOf(ls, Product, i - 1), QtyOf(ls, Product, i), Upto(sp, j - 1))
    /\ its = Positive(Taken(ls, Effective(sp), i, j - 1))
    /\ RemainsAt(sp, GivenAt(ls, sp, i, j), rem)

WantedIn(ls, i) == IF i \in DOMAIN ls /\ ls[i].product = Product THEN ls[i].qty ELSE 0

LEMMA NoRows == ASSUME NEW ls, NEW given PROVE Positive(Rows(ls, given, 0)) = << >>
<1>1. Rows(ls, given, 0) = << >>
  <2>1. PICK s : s = [k \in 1 .. 0 |-> RowTo(ls, given, k, Len(given))]
    OBVIOUS
  <2>2. s = << >> /\ Len(s) = 0
    BY <2>1
  <2>3. FlattenSeq(s) = s
    BY <2>2 DEF FlattenSeq
  <2> QED
    BY <2>1, <2>2, <2>3 DEF Rows
<1>2. Positive(<< >>) = << >>
  <2>1. PICK s : s = [i \in DOMAIN << >> |-> IF << >>[i].qty > 0 THEN << << >>[i]>> ELSE << >>]
    OBVIOUS
  <2>2. s = << >> /\ Len(s) = 0
    BY <2>1
  <2>3. FlattenSeq(s) = s
    BY <2>2 DEF FlattenSeq
  <2> QED
    BY <2>1, <2>2, <2>3 DEF Positive
<1> QED
  BY <1>1, <1>2

LEMMA ItemsAreRows ==
    ASSUME NEW ls \in Seq(OrderLine(Products)), NEW sp \in Seq(Splitting(Warehouses))
    PROVE  Items(ls, Product, sp) = Positive(Rows(ls, Effective(sp), Len(ls)))
<1>1. PICK given : given = Effective(sp)
  OBVIOUS
<1>2. DOMAIN given = 1 .. Len(given) /\ DOMAIN ls = 1 .. Len(ls)
  BY <1>1, UptoRises
<1>3. PICK R : R = [i \in DOMAIN ls |->
                      IF ls[i].product = Product
                      THEN [j \in DOMAIN given |-> ItemAt(ls, given, i, j)] ELSE << >>]
  OBVIOUS
<1>4. Items(ls, Product, sp) = Positive(FlattenSeq(R))
  BY <1>1, <1>3 DEF Items, ItemAt
<1>5. R = [k \in 1 .. Len(ls) |-> RowTo(ls, given, k, Len(given))]
  BY <1>2, <1>3 DEF RowTo
<1> QED
  BY <1>1, <1>4, <1>5 DEF Rows

LEMMA LoopStarts ==
    ASSUME NEW ls \in Seq(OrderLine(Products)), NEW sp \in Seq(Splitting(Warehouses)),
           NEW rem, rem = [w \in {sp[j].warehouse : j \in DOMAIN sp} |-> sp[LastOfWarehouse(sp, w)].qty],
           1 \in DOMAIN ls
    PROVE  AtSplit(ls, sp, 1, 1, WantedIn(ls, 1), rem, << >>)
<1>1. PICK l \in Nat : l = Len(sp) /\ DOMAIN sp = 1 .. l
  OBVIOUS
<1>2. PICK a \in Nat, b \in Nat : /\ a = QtyOf(ls, Product, 0) /\ b = QtyOf(ls, Product, 1)
                                  /\ a = 0 /\ b = WantedIn(ls, 1)
  <2>1. 0 = 1 - 1 /\ QtyOf(ls, Product, 0) = 0
    BY QuantitiesRise
  <2>2. /\ QtyOf(ls, Product, 0) \in Nat /\ QtyOf(ls, Product, 1) \in Nat
        /\ QtyOf(ls, Product, 1) = QtyOf(ls, Product, 0)
                                    + IF ls[1].product = Product THEN ls[1].qty ELSE 0
    BY <2>1, QtyRises
  <2>3. WantedIn(ls, 1) = IF ls[1].product = Product THEN ls[1].qty ELSE 0
    BY DEF WantedIn
  <2>4. ls[1].qty \in Nat
    BY QtyRises
  <2>5. QtyOf(ls, Product, 1) = WantedIn(ls, 1)
    BY <2>1, <2>2, <2>3, <2>4
  <2> QED
    BY <2>1, <2>2, <2>5
<1>3. PICK z \in Nat : z = Upto(sp, l) /\ Upto(sp, 0) = 0
  <2>1. l \in 0 .. l
    OBVIOUS
  <2> QED
    BY <1>1, <2>1, UptoRises
<1>4. Reach(a, b, 0) = 0 /\ GivenAt(ls, sp, 1, 1) = 0
  <2>1. Reach(a, b, 0) = 0
    BY <1>2 DEF Reach
  <2>2. GivenTo(a, b, 0, z) = 0
    BY <1>2, <2>1 DEF GivenTo
  <2>3. 1 - 1 = 0
    OBVIOUS
  <2> QED
    BY <1>1, <1>2, <1>3, <2>1, <2>2, <2>3 DEF GivenAt
<1>5. RemainsAt(sp, 0, rem)
  <2>1. ASSUME NEW k \in DOMAIN sp, NamedFirst(sp, k)
        PROVE  rem[sp[k].warehouse] = LeftOf(Upto(sp, k - 1), Upto(sp, k), 0)
    <3>1. rem[sp[k].warehouse] = Effective(sp)[k].qty
      BY <2>1, FirstToName
    <3>2. k \in 0 .. l /\ k - 1 \in 0 .. l /\ k \in 1 .. l
      BY <1>1
    <3>3. PICK x \in Nat, y \in Nat, q \in Nat :
             x = Upto(sp, k - 1) /\ y = Upto(sp, k) /\ q = Effective(sp)[k].qty /\ y = x + q
      <4>1. /\ Upto(sp, k - 1) \in Nat /\ Upto(sp, k) \in Nat /\ Effective(sp)[k].qty \in Nat
            /\ Upto(sp, k) = Upto(sp, k - 1) + Effective(sp)[k].qty
        BY <1>1, <3>2, UptoRises
      <4> QED
        BY <4>1
    <3>4. LeftOf(x, y, 0) = q
      BY <3>3 DEF LeftOf, Reach
    <3> QED
      BY <3>1, <3>3, <3>4
  <2> QED
    BY <2>1 DEF RemainsAt
<1>6. Positive(Taken(ls, Effective(sp), 1, 0)) = << >>
  <2>1. Taken(ls, Effective(sp), 1, 0) = Rows(ls, Effective(sp), 1 - 1)
    BY UptoRises, NextRow
  <2>2. 1 - 1 = 0
    OBVIOUS
  <2> QED
    BY <2>1, <2>2, NoRows
<1>7. 1 \in 1 .. Len(sp) + 1 /\ 1 - 1 = 0
  BY <1>1
<1> QED
  BY <1>2, <1>3, <1>4, <1>5, <1>6, <1>7 DEF AtSplit

(* Splits that give a line nothing add no items.                           *)
LEMMA NothingMore ==
    ASSUME NEW ls \in Seq(OrderLine(Products)), NEW sp \in Seq(Splitting(Warehouses)),
           NEW i \in DOMAIN ls, NEW m \in 0 .. Len(sp),
           NEW a \in Nat, a = QtyOf(ls, Product, i - 1), NEW b \in Nat, b = QtyOf(ls, Product, i),
           a <= b,
           \A n \in m + 1 .. Len(sp) : Reach(a, b, Upto(sp, n)) = Reach(a, b, Upto(sp, n - 1))
    PROVE  Positive(Taken(ls, Effective(sp), i, Len(sp))) = Positive(Taken(ls, Effective(sp), i, m))
<1>1. PICK e \in Seq(Splitting(Warehouses)) : e = Effective(sp) /\ Len(e) = Len(sp) /\ DOMAIN e = DOMAIN sp
  BY UptoRises
<1>2. PICK l \in Nat : l = Len(sp) /\ DOMAIN sp = 1 .. l
  OBVIOUS
<1>3. PICK f : f = [n \in 0 .. l |-> Positive(Taken(ls, e, i, n))]
  OBVIOUS
<1>4. ASSUME NEW n \in 1 .. l, n - 1 >= m PROVE f[n] = f[n - 1]
  <2>1. PICK o \in Nat : o = n - 1 /\ o \in 0 .. l /\ n \in 0 .. l /\ n \in DOMAIN e
    BY <1>1, <1>2
  <2>2. Positive(Taken(ls, e, i, n)) =
              IF ls[i].product = Product /\ Overlap(ls, i, e, n) > 0
              THEN Append(Positive(Taken(ls, e, i, o)), ItemAt(ls, e, i, n))
              ELSE Positive(Taken(ls, e, i, o))
    BY <2>1, NextItem
  <2>3. ASSUME ls[i].product = Product PROVE Overlap(ls, i, e, n) = 0
    <3>1. Overlap(ls, i, e, n) = Reach(a, b, Total(SubSeq(e, 1, n))) - Reach(a, b, Total(SubSeq(e, 1, n - 1)))
      BY <2>1, <2>3, OverlapIsReach
    <3>2. Reach(a, b, Upto(sp, n)) = Reach(a, b, Upto(sp, n - 1))
      <4>1. n \in m + 1 .. Len(sp)
        BY <1>2, <1>4
      <4> QED
        BY <4>1
    <3>3. Reach(a, b, Upto(sp, n)) \in Int
      <4>1. Upto(sp, n) \in Nat
        BY <1>2, <2>1, UptoRises
      <4> QED
        BY <4>1 DEF Reach
    <3> QED
      BY <1>1, <3>1, <3>2, <3>3 DEF Upto
  <2>4. Positive(Taken(ls, e, i, n)) = Positive(Taken(ls, e, i, o))
    BY <2>2, <2>3
  <2> QED
    BY <1>3, <2>1, <2>4
<1>5. PICK G : G = {d \in Nat : m + d <= l => f[m + d] = f[m]}
  OBVIOUS
<1>6. 0 \in G
  BY <1>5
<1>7. ASSUME NEW d \in Nat, d \in G PROVE d + 1 \in G
  <2>1. ASSUME m + (d + 1) <= l PROVE f[m + (d + 1)] = f[m]
    <3>1. PICK n \in 1 .. l : n = m + (d + 1) /\ n - 1 = m + d /\ n - 1 >= m /\ m + d <= l
      BY <1>2, <2>1
    <3>2. f[n] = f[n - 1]
      BY <1>4, <3>1
    <3>3. f[m + d] = f[m]
      BY <1>5, <1>7, <3>1
    <3> QED
      BY <3>1, <3>2, <3>3
  <2> QED
    BY <1>5, <2>1
<1>8. \A d \in Nat : d \in G
  BY <1>6, <1>7, NatSetInduction
<1>9. f[l] = f[m]
  <2>1. PICK d \in Nat : d = l - m /\ m + d = l
    <3>1. m \in Nat /\ m <= l
      BY <1>2
    <3>2. l - m \in Nat /\ m + (l - m) = l
      BY <3>1
    <3> QED
      BY <3>2
  <2>2. m + d <= l => f[m + d] = f[m]
    BY <1>5, <1>8
  <2> QED
    BY <2>1, <2>2
<1>10. l \in 0 .. l /\ m \in 0 .. l
  BY <1>2
<1> QED
  BY <1>1, <1>2, <1>3, <1>9, <1>10

LEMMA LineOn ==
    ASSUME NEW ls \in Seq(OrderLine(Products)), NEW sp \in Seq(Splitting(Warehouses)),
           NEW i \in DOMAIN ls, NEW j, NEW lf, NEW rem, NEW its,
           AtSplit(ls, sp, i, j, lf, rem, its), lf <= 0 \/ j > Len(sp)
    PROVE  /\ its = Positive(Rows(ls, Effective(sp), i))
           /\ i + 1 \in DOMAIN ls => AtSplit(ls, sp, i + 1, 1, WantedIn(ls, i + 1), rem, its)
<1>1. PICK l \in Nat : l = Len(sp) /\ DOMAIN sp = 1 .. l
  OBVIOUS
<1>2. PICK a \in Nat, b \in Nat : a = QtyOf(ls, Product, i - 1) /\ b = QtyOf(ls, Product, i) /\ a <= b
  BY QtyRises
<1>3. PICK m \in 0 .. l : m = j - 1 /\ j \in 1 .. l + 1
  BY <1>1 DEF AtSplit
<1>4. PICK x \in Nat : x = Upto(sp, m)
  BY <1>1, UptoRises
<1>5. PICK z \in Nat : z = Upto(sp, l) /\ x <= z
  <2>1. l \in 0 .. l /\ m <= l
    OBVIOUS
  <2> QED
    BY <1>1, <1>4, <2>1, UptoRises
<1>6. lf = b - Reach(a, b, x) /\ its = Positive(Taken(ls, Effective(sp), i, m))
  BY <1>2, <1>3, <1>4 DEF AtSplit
<1>7. b - Reach(a, b, x) <= 0 \/ x = z
  <2>1. CASE lf <= 0
    BY <1>6, <2>1
  <2>2. CASE j > Len(sp)
    <3>1. m = l
      BY <1>1, <1>3, <2>2
    <3> QED
      BY <1>4, <1>5, <3>1
  <2> QED
    BY <2>1, <2>2
<1>8. LineIsServed(a, b, x, z)
  BY <1>2, <1>5, <1>7, OneLineOn
<1>9. ASSUME NEW n \in m + 1 .. l PROVE Reach(a, b, Upto(sp, n)) = Reach(a, b, Upto(sp, n - 1))
  <2>1. n \in 0 .. l /\ n - 1 \in 0 .. l /\ m <= n - 1 /\ n - 1 <= n /\ n <= l /\ l \in 0 .. l
    BY <1>9
  <2>2. PICK u \in Nat, v \in Nat : u = Upto(sp, n - 1) /\ v = Upto(sp, n)
    BY <1>1, <2>1, UptoRises
  <2>3. x <= u /\ u <= v /\ v <= z
    BY <1>1, <1>4, <1>5, <2>1, <2>2, UptoRises
  <2>4. b <= b
    OBVIOUS
  <2> QED
    BY <1>8, <2>2, <2>3, <2>4 DEF LineIsServed, ReachesNoMore
<1>10. its = Positive(Rows(ls, Effective(sp), i))
  <2>1. Positive(Taken(ls, Effective(sp), i, l)) = Positive(Taken(ls, Effective(sp), i, m))
    BY <1>1, <1>2, <1>9, NothingMore
  <2>2. Taken(ls, Effective(sp), i, l) = Rows(ls, Effective(sp), i)
    BY <1>1, UptoRises, NextRow
  <2> QED
    BY <1>6, <2>1, <2>2
<1>11. ASSUME i + 1 \in DOMAIN ls PROVE AtSplit(ls, sp, i + 1, 1, WantedIn(ls, i + 1), rem, its)
  <2>1. PICK k \in DOMAIN ls : k = i + 1 /\ k - 1 = i
    BY <1>11
  <2>2. PICK e \in Nat : /\ e = QtyOf(ls, Product, k) /\ b <= e /\ WantedIn(ls, k) = e - b
    <3>1. /\ QtyOf(ls, Product, k) \in Nat /\ ls[k].qty \in Nat
          /\ QtyOf(ls, Product, k) = b + IF ls[k].product = Product THEN ls[k].qty ELSE 0
      BY <1>2, <2>1, QtyRises
    <3>2. WantedIn(ls, k) = IF ls[k].product = Product THEN ls[k].qty ELSE 0
      BY DEF WantedIn
    <3>3. b <= QtyOf(ls, Product, k) /\ WantedIn(ls, k) = QtyOf(ls, Product, k) - b
      BY <3>1, <3>2
    <3> QED
      BY <3>1, <3>3
  <2>3. Upto(sp, 0) = 0 /\ 1 - 1 = 0 /\ 1 \in 1 .. Len(sp) + 1
    <3>1. Upto(sp, 0) = 0
      BY UptoRises
    <3>2. 1 \in 1 .. Len(sp) + 1
      BY <1>1
    <3> QED
      BY <3>1, <3>2
  <2>4. GivenAt(ls, sp, k, 1) = GivenAt(ls, sp, i, j)
    <3>1. GivenAt(ls, sp, k, 1) = GivenTo(b, e, 0, z)
      BY <1>1, <1>2, <1>5, <2>1, <2>2, <2>3 DEF GivenAt
    <3>2. GivenAt(ls, sp, i, j) = GivenTo(a, b, x, z)
      BY <1>1, <1>2, <1>3, <1>4, <1>5 DEF GivenAt
    <3> QED
      BY <1>8, <2>2, <3>1, <3>2 DEF LineIsServed
  <2>5. WantedIn(ls, k) = e - Reach(b, e, Upto(sp, 0))
    BY <1>8, <2>2, <2>3 DEF LineIsServed
  <2>6. its = Positive(Taken(ls, Effective(sp), k, 0))
    <3>1. Taken(ls, Effective(sp), k, 0) = Rows(ls, Effective(sp), i)
      BY <2>1, UptoRises, NextRow
    <3> QED
      BY <1>10, <3>1
  <2>7. RemainsAt(sp, GivenAt(ls, sp, k, 1), rem)
    BY <2>4 DEF AtSplit
  <2>8. AtSplit(ls, sp, k, 1, WantedIn(ls, k), rem, its)
    BY <1>2, <2>1, <2>2, <2>3, <2>5, <2>6, <2>7 DEF AtSplit
  <2> QED
    BY <2>1, <2>8
<1> QED
  BY <1>10, <1>11

(* What the loop comes to when it has looked at the split.                 *)
SplitDone(ls, sp, i, j, lf, rem, its, w, t) ==
    /\ w \in DOMAIN rem
    /\ rem[w] <= 0 => AtSplit(ls, sp, i, j + 1, lf, rem, its)
    /\ rem[w] > 0 => AtSplit(ls, sp, i, j + 1, lf - t, [rem EXCEPT ![w] = @ - t],
                             Append(its, [line |-> i, row |-> <<w, Product>>, qty |-> t]))

LEMMA SplitOn ==
    ASSUME NEW ls \in Seq(OrderLine(Products)), NEW sp \in Seq(Splitting(Warehouses)),
           NEW i \in DOMAIN ls, NEW j \in DOMAIN sp, NEW lf, NEW rem, NEW its,
           AtSplit(ls, sp, i, j, lf, rem, its), lf > 0,
           NEW w, w = sp[j].warehouse, NEW t, t = Min({lf, rem[w]})
    PROVE  SplitDone(ls, sp, i, j, lf, rem, its, w, t)
<1>1. PICK l \in Nat : l = Len(sp) /\ DOMAIN sp = 1 .. l
  OBVIOUS
<1>2. PICK a \in Nat, b \in Nat : a = QtyOf(ls, Product, i - 1) /\ b = QtyOf(ls, Product, i) /\ a <= b
  BY QtyRises
<1>3. PICK m \in 0 .. l : m = j - 1 /\ j = m + 1 /\ j \in 0 .. l /\ j \in 1 .. l /\ m <= j /\ j <= l /\ l \in 0 .. l
  <2>1. j - 1 \in 0 .. l /\ j = (j - 1) + 1 /\ j \in 0 .. l /\ j \in 1 .. l /\ j - 1 <= j /\ j <= l /\ l \in 0 .. l
    BY <1>1
  <2> QED
    BY <2>1
<1>4. PICK x \in Nat, y \in Nat, z \in Nat :
         x = Upto(sp, m) /\ y = Upto(sp, j) /\ z = Upto(sp, l) /\ x <= y /\ y <= z
  <2>1. /\ Upto(sp, m) \in Nat /\ Upto(sp, j) \in Nat /\ Upto(sp, l) \in Nat
        /\ Upto(sp, m) <= Upto(sp, j) /\ Upto(sp, j) <= Upto(sp, l)
    BY <1>1, <1>3, UptoRises
  <2> QED
    BY <2>1
<1>5. /\ lf = b - Reach(a, b, x) /\ its = Positive(Taken(ls, Effective(sp), i, m))
      /\ RemainsAt(sp, GivenAt(ls, sp, i, j), rem)
  BY <1>2, <1>3, <1>4 DEF AtSplit
<1>6. PICK c \in Int, d \in Int :
         /\ c = GivenAt(ls, sp, i, j) /\ c = GivenTo(a, b, x, z)
         /\ d = GivenAt(ls, sp, i, j + 1) /\ d = GivenTo(a, b, y, z)
  <2>1. GivenAt(ls, sp, i, j) = GivenTo(a, b, x, z)
    BY <1>1, <1>2, <1>3, <1>4 DEF GivenAt
  <2>2. GivenAt(ls, sp, i, j + 1) = GivenTo(a, b, y, z)
    <3>1. (j + 1) - 1 = j
      BY <1>3
    <3> QED
      BY <1>1, <1>2, <1>4, <3>1 DEF GivenAt
  <2>3. GivenTo(a, b, x, z) \in Int /\ GivenTo(a, b, y, z) \in Int
    BY DEF GivenTo, Reach
  <2> QED
    BY <2>1, <2>2, <2>3
<1>7. lf \in Int /\ lf > 0
  BY <1>5 DEF Reach
<1>8. PICK n \in Int, s \in Int : n = LeftOf(x, y, c) /\ s = IF lf <= n THEN lf ELSE n
  <2>1. LeftOf(x, y, c) \in Int
    BY DEF LeftOf, Reach
  <2> QED
    BY <1>7, <2>1
<1>9. /\ n <= 0 => Reach(a, b, y) = Reach(a, b, x) /\ d = c
      /\ n > 0 => /\ Reach(a, b, y) - Reach(a, b, x) = s /\ s > 0
                  /\ LeftOf(x, y, d) = n - s /\ b - Reach(a, b, y) = lf - s
      /\ TakesInOrder(x, y, z, c, d)
  <2>1. TakesOrPasses(a, b, x, y, z)
    BY <1>2, <1>4, <1>5, <1>7, OneTake
  <2> QED
    BY <1>5, <1>6, <1>8, <2>1 DEF TakesOrPasses
<1>10. w \in DOMAIN rem
  BY <1>5 DEF RemainsAt
<1>11. ls[i].product = Product
  <2>1. Reach(a, b, x) < b
    BY <1>5, <1>7 DEF Reach
  <2>2. a # b
    BY <1>4, <2>1 DEF Reach
  <2>3. b = a + IF ls[i].product = Product THEN ls[i].qty ELSE 0
    BY <1>2, QtyRises
  <2> QED
    BY <2>2, <2>3
<1>12. Overlap(ls, i, Effective(sp), j) = Reach(a, b, y) - Reach(a, b, x)
  <2>1. Effective(sp) \in Seq(Splitting(Warehouses)) /\ j \in DOMAIN Effective(sp)
    BY UptoRises
  <2>2. Overlap(ls, i, Effective(sp), j) = Reach(a, b, Total(SubSeq(Effective(sp), 1, j)))
                                             - Reach(a, b, Total(SubSeq(Effective(sp), 1, j - 1)))
    BY <1>2, <1>11, <2>1, OverlapIsReach
  <2> QED
    BY <1>3, <1>4, <2>2 DEF Upto
<1>13. Positive(Taken(ls, Effective(sp), i, j)) =
          IF Overlap(ls, i, Effective(sp), j) > 0
          THEN Append(its, ItemAt(ls, Effective(sp), i, j)) ELSE its
  <2>1. Effective(sp) \in Seq(Splitting(Warehouses)) /\ j \in DOMAIN Effective(sp) /\ m \in Nat
    BY UptoRises
  <2> QED
    BY <1>3, <1>5, <1>11, <2>1, NextItem
<1>14. ASSUME NEW k \in DOMAIN sp, k # j
       PROVE  LeftOf(Upto(sp, k - 1), Upto(sp, k), d) = LeftOf(Upto(sp, k - 1), Upto(sp, k), c)
  <2>1. k \in 0 .. l /\ k - 1 \in 0 .. l /\ k - 1 <= k /\ k <= l /\ (k <= m \/ j <= k - 1)
    BY <1>1, <1>3, <1>14
  <2>2. PICK u \in Nat, v \in Nat : u = Upto(sp, k - 1) /\ v = Upto(sp, k)
    BY <1>1, <2>1, UptoRises
  <2>3. u <= v /\ v <= z /\ (v <= x \/ y <= u)
    BY <1>1, <1>3, <1>4, <2>1, <2>2, UptoRises
  <2> QED
    BY <1>9, <2>2, <2>3 DEF TakesInOrder
<1>15. CASE NamedFirst(sp, j)
  <2>1. rem[w] = n
    BY <1>3, <1>4, <1>5, <1>6, <1>8, <1>15 DEF RemainsAt
  <2>2. t = s
    <3>1. Min({lf, n}) = IF lf <= n THEN lf ELSE n
      BY <1>7, MaxOfTwo
    <3> QED
      BY <1>8, <2>1, <3>1
  <2>3. ASSUME n <= 0 PROVE AtSplit(ls, sp, i, j + 1, lf, rem, its)
    <3>1. d = c /\ Reach(a, b, y) = Reach(a, b, x)
      BY <1>9, <2>3
    <3>2. Overlap(ls, i, Effective(sp), j) = 0
      <4>1. Reach(a, b, x) \in Int
        BY DEF Reach
      <4> QED
        BY <1>12, <3>1, <4>1
    <3>3. its = Positive(Taken(ls, Effective(sp), i, j))
      BY <1>13, <3>2
    <3>4. j + 1 \in 1 .. Len(sp) + 1 /\ (j + 1) - 1 = j
      BY <1>1
    <3> QED
      BY <1>2, <1>4, <1>5, <1>6, <3>1, <3>3, <3>4 DEF AtSplit
  <2>4. ASSUME n > 0
        PROVE  AtSplit(ls, sp, i, j + 1, lf - t, [rem EXCEPT ![w] = @ - t],
                                    Append(its, [line |-> i, row |-> <<w, Product>>, qty |-> t]))
    <3>1. PICK next : next = [rem EXCEPT ![w] = @ - t]
      OBVIOUS
    <3>2. /\ Reach(a, b, y) - Reach(a, b, x) = s /\ s > 0
          /\ LeftOf(x, y, d) = n - s /\ b - Reach(a, b, y) = lf - s
      BY <1>9, <2>4
    <3>3. Positive(Taken(ls, Effective(sp), i, j))
             = Append(its, [line |-> i, row |-> <<w, Product>>, qty |-> t])
      <4>1. Effective(sp)[j].warehouse = w
        BY FirstToName
      <4>2. ItemAt(ls, Effective(sp), i, j) = [line |-> i, row |-> <<w, Product>>, qty |-> t]
        BY <1>12, <2>2, <3>2, <4>1 DEF ItemAt
      <4> QED
        BY <1>12, <1>13, <3>2, <4>2
    <3>4. RemainsAt(sp, d, next)
      <4>1. DOMAIN next = {sp[k].warehouse : k \in DOMAIN sp}
        BY <1>5, <3>1 DEF RemainsAt
      <4>2. next[w] = LeftOf(Upto(sp, j - 1), Upto(sp, j), d)
        BY <1>3, <1>4, <1>10, <2>1, <2>2, <3>1, <3>2
      <4>3. ASSUME NEW k \in DOMAIN sp, k # j, NamedFirst(sp, k)
            PROVE  next[sp[k].warehouse] = LeftOf(Upto(sp, k - 1), Upto(sp, k), d)
        <5>1. sp[k].warehouse # w
          <6>1. k \in 1 .. j - 1 \/ j \in 1 .. k - 1
            BY <1>1, <4>3
          <6> QED
            BY <1>15, <4>3, <6>1 DEF NamedFirst
        <5>2. next[sp[k].warehouse] = rem[sp[k].warehouse]
          BY <1>5, <3>1, <5>1 DEF RemainsAt
        <5>3. rem[sp[k].warehouse] = LeftOf(Upto(sp, k - 1), Upto(sp, k), c)
          BY <1>5, <1>6, <4>3 DEF RemainsAt
        <5> QED
          BY <1>14, <4>3, <5>2, <5>3
      <4> QED
        BY <4>1, <4>2, <4>3 DEF RemainsAt
    <3>5. j + 1 \in 1 .. Len(sp) + 1 /\ (j + 1) - 1 = j
      BY <1>1
    <3>6. lf - t = b - Reach(a, b, y)
      BY <2>2, <3>2
    <3> QED
      BY <1>2, <1>4, <1>6, <3>1, <3>3, <3>4, <3>5, <3>6 DEF AtSplit
  <2> QED
    BY <1>10, <2>1, <2>3, <2>4 DEF SplitDone
<1>16. CASE ~NamedFirst(sp, j)
  <2>1. PICK f \in 1 .. j : NamedFirst(sp, f) /\ sp[f].warehouse = w
    BY FirstToName
  <2>2. f # j /\ f \in DOMAIN sp /\ f \in 0 .. l /\ f - 1 \in 0 .. l /\ f - 1 <= f /\ f <= m
    BY <1>1, <1>3, <1>16, <2>1
  <2>3. rem[w] = LeftOf(Upto(sp, f - 1), Upto(sp, f), c)
    BY <1>5, <1>6, <2>1, <2>2 DEF RemainsAt
  <2>4. PICK u \in Nat, v \in Nat : u = Upto(sp, f - 1) /\ v = Upto(sp, f)
    BY <1>1, <2>2, UptoRises
  <2>5. u <= v /\ v <= x
    BY <1>1, <1>4, <2>2, <2>4, UptoRises
  <2>6. rem[w] \in Int /\ rem[w] <= 0
    <3>1. LeftOf(u, v, c) <= 0
      BY <1>9, <2>5 DEF TakesInOrder
    <3>2. LeftOf(u, v, c) \in Int
      BY DEF LeftOf, Reach
    <3> QED
      BY <2>3, <2>4, <3>1, <3>2
  <2>7. y = x
    <3>1. Effective(sp)[j].qty = 0
      BY <1>16, FirstToName
    <3>2. Upto(sp, j) = Upto(sp, j - 1) + Effective(sp)[j].qty
      BY <1>1, <1>3, UptoRises
    <3>3. y = x + 0
      BY <1>3, <1>4, <3>1, <3>2
    <3> QED
      BY <3>3
  <2>8. d = c /\ Overlap(ls, i, Effective(sp), j) = 0
    BY <1>6, <1>12, <2>7 DEF Reach
  <2>9. its = Positive(Taken(ls, Effective(sp), i, j))
    BY <1>13, <2>8
  <2>10. j + 1 \in 1 .. Len(sp) + 1 /\ (j + 1) - 1 = j
    BY <1>1
  <2>11. AtSplit(ls, sp, i, j + 1, lf, rem, its)
    BY <1>2, <1>4, <1>5, <1>6, <2>7, <2>8, <2>9, <2>10 DEF AtSplit
  <2>12. ~(rem[w] > 0)
    BY <2>6
  <2> QED
    BY <1>10, <2>11, <2>12 DEF SplitDone
<1> QED
  BY <1>15, <1>16

-----------------------------------------------------------------------------
(* The invariant of the loop, and what the splits are.                     *)
LoopInv ==
    /\ lines \in Seq(OrderLine(Products)) /\ line \in 0 .. Len(lines) + 1
    /\ line = 0 => items = << >>
    /\ line > 0 => splits \in Seq(Splitting(Warehouses))
    /\ line \in DOMAIN lines => AtSplit(lines, splits, line, split, left, remaining, items)
    /\ line > Len(lines) => items = Items(lines, Product, splits)

SplitInv == /\ free \in [Warehouses -> Int]
            /\ question = "split" /\ line > 0 => splits \in Splits(Want, free)

LEMMA LoopFirst == Init => LoopInv /\ SplitInv
<1> SUFFICES ASSUME Init PROVE LoopInv /\ SplitInv
  OBVIOUS
<1>1. lines \in Seq(OrderLine(Products)) /\ free \in [Warehouses -> Int]
  <2>1. \A o \in Orders : o \in Seq(OrderLine(Products))
    BY CalculationsAssumption DEF CalculationsAssumption, OrderLine
  <2>2. << >> \in Seq(OrderLine(Products)) /\ NoStock \in [Warehouses -> Int]
    BY DEF NoStock
  <2>3. \A f \in Stocks : f \in [Warehouses -> Int]
    BY CalculationsAssumption DEF CalculationsAssumption
  <2> QED
    BY <2>1, <2>2, <2>3 DEF Init, InitSplit, InitRefund, InitInput, InitOffer
<1>2. line = 0 /\ items = << >>
  BY DEF Init, LoopInit
<1>3. Len(lines) \in Nat /\ DOMAIN lines = 1 .. Len(lines)
  BY <1>1
<1> QED
  BY <1>1, <1>2, <1>3 DEF LoopInv, SplitInv

LEMMA WantedIsIn == \A i : Wanted(i) = WantedIn(lines, i)
BY DEF Wanted, WantedIn

LEMMA StartKeeps ==
    ASSUME LoopInv, NEW asked \in Seq(Splitting(Warehouses)), StartLoop(asked) PROVE LoopInv'
<1>1. PICK ls \in Seq(OrderLine(Products)) : ls = lines
  BY DEF LoopInv
<1>2. /\ line' = 1 /\ lines' = ls /\ splits' = asked /\ split' = 1 /\ left' = WantedIn(ls, 1)
      /\ items' = << >>
      /\ remaining' = [w \in {asked[j].warehouse : j \in DOMAIN asked} |->
                        asked[LastOfWarehouse(asked, w)].qty]
  BY <1>1, WantedIsIn DEF StartLoop, LoopInv
<1>3. DOMAIN ls = 1 .. Len(ls) /\ Len(ls) \in Nat
  OBVIOUS
<1>4. 1 \in DOMAIN ls => AtSplit(ls, asked, 1, 1, WantedIn(ls, 1), remaining', << >>)
  BY <1>2, LoopStarts
<1>5. ASSUME 1 > Len(ls) PROVE << >> = Items(ls, Product, asked)
  <2>1. Len(ls) = 0
    BY <1>3, <1>5
  <2> QED
    BY <2>1, NoRows, ItemsAreRows
<1> QED
  BY <1>2, <1>3, <1>4, <1>5 DEF LoopInv

LEMMA NextLineKeeps == ASSUME LoopInv, NextLine PROVE LoopInv'
<1>1. PICK ls \in Seq(OrderLine(Products)), sp \in Seq(Splitting(Warehouses)), i \in Nat :
         /\ i \in DOMAIN ls /\ ls = lines /\ sp = splits /\ i = line
         /\ AtSplit(ls, sp, i, split, left, remaining, items)
  <2>1. line \in DOMAIN lines /\ lines \in Seq(OrderLine(Products))
    BY DEF LoopInv, NextLine
  <2>2. line > 0
    BY <2>1
  <2> QED
    BY <2>1, <2>2 DEF LoopInv
<1>2. /\ line' = i + 1 /\ lines' = ls /\ splits' = sp /\ split' = 1 /\ left' = WantedIn(ls, i + 1)
      /\ items' = items /\ remaining' = remaining /\ (left <= 0 \/ split > Len(sp))
  BY <1>1, WantedIsIn DEF NextLine
<1>3. /\ items = Positive(Rows(ls, Effective(sp), i))
      /\ i + 1 \in DOMAIN ls => AtSplit(ls, sp, i + 1, 1, WantedIn(ls, i + 1), remaining, items)
  BY <1>1, <1>2, LineOn
<1>4. i + 1 > Len(ls) => items = Items(ls, Product, sp)
  <2>1. i + 1 > Len(ls) => i = Len(ls)
    BY <1>1
  <2> QED
    BY <1>3, <2>1, ItemsAreRows
<1>5. i + 1 \in 0 .. Len(ls) + 1 /\ i + 1 # 0
  BY <1>1
<1> QED
  BY <1>2, <1>3, <1>4, <1>5 DEF LoopInv

LEMMA NextSplitKeeps == ASSUME LoopInv, NextSplit PROVE LoopInv'
<1>1. PICK ls \in Seq(OrderLine(Products)), sp \in Seq(Splitting(Warehouses)), i \in Nat :
         /\ i \in DOMAIN ls /\ ls = lines /\ sp = splits /\ i = line
         /\ AtSplit(ls, sp, i, split, left, remaining, items)
  <2>1. line \in DOMAIN lines /\ lines \in Seq(OrderLine(Products))
    BY DEF LoopInv, NextSplit
  <2>2. line > 0
    BY <2>1
  <2> QED
    BY <2>1, <2>2 DEF LoopInv
<1>2. PICK j \in DOMAIN sp : j = split
  <2>1. split \in 1 .. Len(sp) + 1 /\ split <= Len(sp)
    BY <1>1 DEF AtSplit, NextSplit
  <2> QED
    BY <2>1
<1>3. PICK w, t : w = sp[j].warehouse /\ t = Min({left, remaining[w]})
  OBVIOUS
<1>4. /\ left > 0 /\ line' = i /\ lines' = ls /\ splits' = sp /\ split' = j + 1
      /\ \/ remaining[w] <= 0 /\ left' = left /\ remaining' = remaining /\ items' = items
         \/ /\ remaining[w] > 0
            /\ left' = left - t /\ remaining' = [remaining EXCEPT ![w] = @ - t]
            /\ items' = Append(items, [line |-> i, row |-> <<w, Product>>, qty |-> t])
  BY <1>1, <1>2, <1>3 DEF NextSplit
<1>5. /\ remaining[w] <= 0 => AtSplit(ls, sp, i, j + 1, left, remaining, items)
      /\ remaining[w] > 0 => AtSplit(ls, sp, i, j + 1, left - t, [remaining EXCEPT ![w] = @ - t],
                    Append(items, [line |-> i, row |-> <<w, Product>>, qty |-> t]))
  <2>1. SplitDone(ls, sp, i, j, left, remaining, items, w, t)
    BY <1>1, <1>2, <1>3, <1>4, SplitOn
  <2> QED
    BY <2>1 DEF SplitDone
<1>6. AtSplit(ls, sp, i, j + 1, left', remaining', items')
  BY <1>4, <1>5
<1>7. i \in 0 .. Len(ls) + 1 /\ i # 0 /\ ~(i > Len(ls))
  BY <1>1
<1> QED
  BY <1>4, <1>6, <1>7 DEF LoopInv

LEMMA SplitsAreSplits ==
    ASSUME LoopInv, SplitInv, NEW asked \in Splits(Want, free)
    PROVE  asked \in Seq(Splitting(Warehouses))
<1>1. Want \in Nat
  <2>1. lines \in Seq(OrderLine(Products)) /\ Len(lines) \in 0 .. Len(lines)
    BY DEF LoopInv
  <2> QED
    BY <2>1, QtyOfType DEF Want, Ordered
<1>2. IsFiniteSet(Warehouses) /\ free \in [Warehouses -> Int]
  BY CalculationsAssumption DEF CalculationsAssumption, SplitInv
<1> QED
  BY <1>1, <1>2, SplitsType

LEMMA LoopStays == ASSUME LoopInv, UNCHANGED loopVars PROVE LoopInv'
BY DEF loopVars, LoopInv

LEMMA LoopNextKeeps == LoopInv /\ SplitInv /\ [Next]_vars => LoopInv' /\ SplitInv'
<1> SUFFICES ASSUME LoopInv, SplitInv, [Next]_vars PROVE LoopInv' /\ SplitInv'
  OBVIOUS
<1>1. ASSUME UNCHANGED loopVars, question' = question, free' = free PROVE LoopInv' /\ SplitInv'
  <2>1. SplitInv'
    BY <1>1 DEF SplitInv, Want, loopVars
  <2> QED
    BY <1>1, <2>1, LoopStays
<1>2. CASE Ask
  BY <1>1, <1>2 DEF Ask
<1>3. CASE AskOn
  BY <1>1, <1>3 DEF AskOn
<1>4. CASE Offer
  BY <1>1, <1>4 DEF Offer
<1>5. CASE UNCHANGED vars
  BY <1>1, <1>5 DEF vars
<1>6. CASE HandOut
  <2>1. question' = question /\ free' = free /\ (Suggest \/ TypeIn \/ LoopNext)
    BY <1>6 DEF HandOut
  <2>2. CASE Suggest
    <3>1. PICK asked \in Splits(Want, free) : StartLoop(asked)
      BY <2>2 DEF Suggest
    <3>2. asked \in Seq(Splitting(Warehouses))
      BY SplitsAreSplits
    <3>3. LoopInv'
      BY <3>1, <3>2, StartKeeps
    <3>4. Want' = Want /\ splits' = asked
      BY <3>1 DEF Want, StartLoop
    <3>5. SplitInv'
      BY <2>1, <3>4 DEF SplitInv
    <3> QED
      BY <3>3, <3>5
  <2>3. CASE TypeIn
    <3>1. PICK asked \in Typed : StartLoop(asked)
      BY <2>3 DEF TypeIn
    <3>2. asked \in Seq(Splitting(Warehouses))
      BY CalculationsAssumption DEF CalculationsAssumption, Splitting
    <3>3. LoopInv'
      BY <3>1, <3>2, StartKeeps
    <3>4. question' # "split"
      BY <2>1, <2>3 DEF TypeIn
    <3>5. SplitInv'
      BY <2>1, <3>4 DEF SplitInv
    <3> QED
      BY <3>3, <3>5
  <2>4. CASE LoopNext
    <3>1. LoopInv'
      BY <2>4, NextLineKeeps, NextSplitKeeps DEF LoopNext
    <3>2. lines' = lines /\ splits' = splits /\ line > 0
      BY <2>4 DEF LoopNext, NextLine, NextSplit, LoopInv
    <3>3. SplitInv'
      BY <2>1, <3>2 DEF SplitInv, Want
    <3> QED
      BY <3>1, <3>3
  <2> QED
    BY <2>1, <2>2, <2>3, <2>4
<1> QED
  BY <1>2, <1>3, <1>4, <1>5, <1>6 DEF Next

LEMMA LoopAlways == Spec => [](LoopInv /\ SplitInv)
BY LoopFirst, LoopNextKeeps, PTL DEF Spec

(* For any stock and any lines, the suggested split is the best there is;  *)
(* and for any split, typed in or suggested, the lines take their items as *)
(* the operator Items of Fulfillment says.                                 *)
THEOREM LinesTakeTheirShare == Spec => []SplitsAreRight
<1>1. ASSUME LoopInv, SplitInv PROVE SplitsAreRight
  <2>1. ItemsAreTheLoops
    BY <1>1 DEF LoopInv, ItemsAreTheLoops
  <2>2. ASSUME question = "split", line > 0 PROVE SuggestionIsBest
    <3>1. PICK want \in Nat : want = Want
      <4>1. lines \in Seq(OrderLine(Products)) /\ Len(lines) \in 0 .. Len(lines)
        BY <1>1 DEF LoopInv
      <4> QED
        BY <4>1, QtyOfType DEF Want, Ordered
    <3>2. /\ IsFiniteSet(Warehouses) /\ free \in [Warehouses -> Int]
          /\ splits \in Splits(want, free)
      BY <1>1, <2>2, <3>1, CalculationsAssumption DEF CalculationsAssumption, SplitInv
    <3>3. PICK C : C = {w \in Warehouses : free[w] > 0}
      OBVIOUS
    <3>4. /\ NamesOnce(splits)
          /\ \A i \in DOMAIN splits : /\ splits[i].warehouse \in C
                                      /\ splits[i].qty \in 1 .. free[splits[i].warehouse]
          /\ Total(splits) = Min({want, SumFunctionOnSet(free, C)})
          /\ \A S \in SUBSET C :
                Cardinality(S) < Len(splits) => SumFunctionOnSet(free, S) < Total(splits)
      <4>1. IsBest(splits, free, want, C)
        BY <3>2, <3>3, SuggestedIsBest
      <4> QED
        BY <4>1 DEF IsBest
    <3>5. Stocked = C
      BY <3>2, <3>3 DEF Stocked
    <3>6. \A i, j \in DOMAIN splits : i # j => splits[i].warehouse # splits[j].warehouse
      BY <3>4 DEF NamesOnce
    <3> QED
      BY <3>1, <3>4, <3>5, <3>6 DEF SuggestionIsBest, Shortfall
  <2> QED
    BY <2>1, <2>2 DEF SplitsAreRight
<1> QED
  BY <1>1, LoopAlways, PTL
=============================================================================
