------------------------------ MODULE MCReports ------------------------------
(* Reports and rules for TLC: the annual tax report, the use of the final income tax,
   advertising reports, reported observations, prices (at most three at a time), archived
   recaps and cited tax sources. They share no row, so a behaviour follows one of them and
   the others rest. *)
EXTENDS AnnualTax, TaxFacility, AdReports, ReportedObservations, PriceVersions,
  SourceRecap, TaxKnowledge, TLC

CONSTANT Parts    \* the components this instance has
VARIABLE part     \* the one followed

-----------------------------------------------------------------------------
\* Packages are prepared once the year is over: an earlier one shows an open month, which
\* no later state of the books shows again.
PackageAfterYear == papers' # papers => month > Year

CONSTANTS partner
SomeParties == {partner}

Report(ad, region, reference, spend) ==
  [place |-> "monday", grain |-> ("ad_name" :> ad @@ "region" :> region),
   reference |-> reference, spend |-> spend]

\* Two parts; a total with one of its parts; a part reported twice.
SomeFiles ==
  { << Report("a", "x", "r1", 1), Report("x", All, "r2", 1) >>,
    << Report("a", All, "r3", 1), Report("a", "x", "r1", 2) >>,
    << Report("a", "x", "r1", 1), Report("a", "x", "r1", 1) >> }

\* A file of observations, its longer next edition and one with another figure.
May == [k \in {"may"} |-> 1]
MayAndJune == May @@ [k \in {"june"} |-> 1]
Revised == [k \in {"may"} |-> 2]
SomeImports == {May, MayAndJune, Revised}

\* A recap of two pages, each with one column of a partner and one cell; the first cell
\* may lie on another page and the first page may be told to count wrongly. The columns of
\* the third source bring counts of their own, unknown and too many.
January(year) == [year |-> year, month |-> 1]
February(year) == [year |-> year, month |-> 2]
SomePages ==
  {<<January(1), February(1)>>, <<February(1), January(2)>>, <<January(1), February(2)>>,
   <<January(2), February(2)>>}
Invoice(total) ==
  [supplier |-> "IIEF", number |-> "1300", quantity |-> 1, price |-> 1, base |-> 1, vat |-> total - 1,
   total |-> total]
OwnCount(source, column) == IF source # "s3" THEN {} ELSE IF column = 1 THEN {{}} ELSE {{4}}
Annual(source) == IF source = "s1" THEN {} ELSE {3}
Recap(source, pages, printed, counted, cell, covered) ==
  [source |-> source,
   months |-> {[id |-> 1, period |-> pages[1], printed |-> printed, counted |-> counted],
               [id |-> 2, period |-> pages[2], printed |-> {1}, counted |-> {}]},
   channels |-> {[id |-> i, month |-> i, label |-> "A", own |-> OwnCount(source, i)] : i \in 1..2},
   details |-> {[id |-> 1, month |-> cell, channel |-> 1, quantity |-> 1, ambiguous |-> FALSE, date |-> {}],
                [id |-> 2, month |-> 2, channel |-> 2, quantity |-> 2, ambiguous |-> TRUE, date |-> {}]},
   exceptions |-> {[id |-> 1, month |-> {1}, details |-> {1}], [id |-> 2, month |-> {}, details |-> {}]},
   annual |-> Annual(source), covered |-> covered,
   invoice |-> IF source = "s3" THEN {} ELSE {Invoice(IF printed = {} THEN 1 ELSE 2)}]
SomeTranscripts ==
  UNION {{Recap(source, pages, printed, counted, cell, covered) :
            source \in {"s1", "s2", "s3"}, printed \in {{}, {2}}, counted \in {{}, {1}, {2}},
            cell \in 1..2, covered \in {{}, {pages[2]}}} : pages \in SomePages}

\* One source of two topics, another of one; a catalog with a new text and its successor,
\* which is reviewed later and gives one source an end.
SomeTopics == [s1 |-> {"workflow"}, s2 |-> {"workflow", "final"}]
Item(source, text, until) == [source |-> source, text |-> text, until |-> until]
SomeCatalogs ==
  {[items |-> {Item("s1", 2, {}), Item("s2", 2, {})}, reviewedOn |-> 0],
   [items |-> {Item("s1", 3, {1})}, reviewedOn |-> 1]}
SomeHeads == {[source |-> "s1", text |-> 1, reviewed |-> 0, until |-> {}]}
SomeAskers ==
  {[tab |-> t, user |-> "u1", organization |-> IF t = 3 THEN "o2" ELSE "o1"] : t \in {1}}
SomeRequired == [t \in {"workflow", "final", "general"} |-> IF t = "final" THEN {"s2"} ELSE {}]
SomeQuotas == [minute |-> 1, day |-> 2, company |-> 1, month |-> 1]

-----------------------------------------------------------------------------
ReportsInit ==
  /\ AnnualInit /\ FacilityInit /\ AdInit /\ ObservationInit /\ PriceInit /\ RecapInit
  /\ KnowledgeInit
  /\ part \in Parts

ReportsNext ==
  /\ UNCHANGED part
  /\ part # "annual"       => UNCHANGED annualVars
  /\ part # "facility"     => UNCHANGED facilityVars
  /\ part # "ads"          => UNCHANGED adVars
  /\ part # "observations" => UNCHANGED observationVars
  /\ part # "prices"       => UNCHANGED priceVars
  /\ part # "recaps"       => UNCHANGED recapVars
  /\ part # "knowledge"    => UNCHANGED knowledgeVars
  /\ \/ part = "annual" /\ AnnualNext /\ PackageAfterYear
     \/ part = "facility" /\ FacilityNext
     \/ part = "ads" /\ AdNext
     \/ part = "observations" /\ ObservationNext
     \/ part = "prices" /\ PriceNext /\ Cardinality(versions') <= 3
     \/ part = "recaps" /\ RecapNext
     \/ part = "knowledge" /\ KnowledgeNext

ReportsSpec ==
  ReportsInit /\ [][ReportsNext]_<<annualVars, facilityVars, adVars, observationVars, priceVars, recapVars,
                                knowledgeVars, part>>
=============================================================================
