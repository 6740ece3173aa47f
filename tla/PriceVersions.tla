---------------------------- MODULE PriceVersions ----------------------------
(***************************************************************************)
(* Prices with a period of validity (finance/models.py PriceVersion,       *)
(* finance/services.py replace_price_version and _resolve_price). A price  *)
(* belongs to one product and kind and either to a party or to everyone;   *)
(* the module follows the selling prices of one product. A version that    *)
(* has no last day lasts until Forever.                                    *)
(*                                                                         *)
(* Every save locks the organization and validates again, so one action is *)
(* one request.                                                            *)
(***************************************************************************)
EXTENDS Integers

CONSTANTS
  Parties,       \* customers and resellers
  Amounts,       \* prices
  MaxDay,        \* bound: days 1..MaxDay
  MonthDays      \* days of a month

ASSUME PriceAssumption == MaxDay \in Nat /\ MonthDays \in Nat \ {0} /\ "everyone" \notin Parties

Days    == 1..MaxDay
Forever == MaxDay + 1
Generic == "everyone"
Scopes  == Parties \cup {Generic}

VARIABLES versions, today, closed

priceVars == <<versions, today, closed>>

Version(scope, first, last, amount) ==
  [scope |-> scope, from |-> first, to |-> last, amount |-> amount]

MonthOf(day) == (day - 1) \div MonthDays

-----------------------------------------------------------------------------
\* Faulty Overlap: the last day is taken to be free again.
OverlapExclusive(v, w) == v.scope = w.scope /\ v.from < w.to /\ w.from < v.to

\* Both days of a period belong to it.
Overlap(v, w) == v.scope = w.scope /\ v.from <= w.to /\ w.from <= v.to

\* PriceVersion.clean and the constraint on its dates, against the other versions.
Clean(v, others) == v.from <= v.to /\ \A w \in others : ~Overlap(v, w)

\* Any period, also one that has begun, or has ended, before today.
CreatePrice(v) ==
  /\ Clean(v, versions)
  /\ versions' = versions \cup {v}
  /\ UNCHANGED <<today, closed>>

\* A closed month that the replacement would reach into.
Locked(first, last) == \E m \in closed : MonthOf(first) <= m /\ m <= MonthOf(last)

\* Faulty ReplacePriceVersion: not compared with today.
ReplaceAnyDay(old, first, amount) ==
  LET shorter == [old EXCEPT !.to = first - 1]
      new == Version(old.scope, first, old.to, amount)
  IN /\ old.from < first /\ first <= old.to
     /\ Clean(shorter, versions \ {old}) /\ Clean(new, (versions \ {old}) \cup {shorter})
     /\ versions' = (versions \ {old}) \cup {shorter, new}
     /\ UNCHANGED <<today, closed>>

\* The old version ends the day before; the new one takes over its last day.
ReplacePriceVersion(old, first, amount) ==
  LET shorter == [old EXCEPT !.to = first - 1]
      new == Version(old.scope, first, old.to, amount)
  IN /\ today <= first /\ old.from < first /\ first <= old.to
     /\ ~Locked(first, old.to)
     /\ Clean(shorter, versions \ {old}) /\ Clean(new, (versions \ {old}) \cup {shorter})
     /\ versions' = (versions \ {old}) \cup {shorter, new}
     /\ UNCHANGED <<today, closed>>

\* A month is closed once its last day has passed.
CloseMonth(m) ==
  /\ m \notin closed /\ \A d \in Days : MonthOf(d) = m => d < today
  /\ closed' = closed \cup {m}
  /\ UNCHANGED <<versions, today>>

NextDay ==
  /\ today < MaxDay /\ today' = today + 1
  /\ UNCHANGED <<versions, closed>>

PriceInit == versions = {} /\ today = 1 /\ closed = {}

PriceNext ==
  \/ \E s \in Scopes, first \in Days, last \in 1..Forever, a \in Amounts :
       CreatePrice(Version(s, first, last, a))
  \/ \E v \in versions, first \in Days, a \in Amounts : ReplacePriceVersion(v, first, a)
  \/ \E d \in Days : CloseMonth(MonthOf(d))
  \/ NextDay

PriceSpec == PriceInit /\ [][PriceNext]_priceVars

-----------------------------------------------------------------------------
\* The versions of a scope that hold on a day, and the candidates of an invoice of that
\* day: the party's own prices before those for everyone.
InForce(vs, scope, day) == {v \in vs : v.scope = scope /\ v.from <= day /\ day <= v.to}
Candidates(party, day) ==
  IF InForce(versions, party, day) # {} THEN InForce(versions, party, day)
  ELSE InForce(versions, Generic, day)

-----------------------------------------------------------------------------
VersionRow == [scope : Scopes, from : Days, to : 1..Forever, amount : Amounts]

PriceTypeOK == versions \subseteq VersionRow /\ today \in Nat /\ closed \subseteq Int

\* However prices are entered and replaced, an invoice of any party and day finds one
\* price: nobody is stopped by "several versions apply" (finance/services.py:141).
OnePricePerDay ==
  \A p \in Parties, d \in Days :
    \A v, w \in Candidates(p, d) : v = w

\* A price that is in force for somebody stays so on every day that has passed, and no
\* day to come is left without the price it had: a replacement starts today or later and
\* runs until the last day of the version it replaces.
PricesStand ==
  [][\A s \in Scopes, d \in Days :
       LET price(vs) == {v.amount : v \in InForce(vs, s, d)}
       IN price(versions) # {} =>
            price(versions') # {} /\ (d < today => price(versions') = price(versions))]_priceVars
=============================================================================
