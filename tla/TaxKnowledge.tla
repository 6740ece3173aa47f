---------------------------- MODULE TaxKnowledge ----------------------------
(***************************************************************************)
(* Tax sources and the answers that cite them (taxes/knowledge.py,         *)
(* taxes/chat.py, chat_api and conversation_api of taxes/views.py). An     *)
(* edition of a source is staged from the catalog and used only after a    *)
(* recorded review; answers keep the cards of the editions they read.      *)
(*                                                                         *)
(* A question is several transactions: its quotas, the reading of the      *)
(* sources, a call of a provider with sources read again, and its message. *)
(* An edition stands for its hash. Wording is left out; a date that a      *)
(* source does not give is {}, one it gives is {n}.                        *)
(***************************************************************************)
EXTENDS Amounts, Sequences, SequencesExt

CONSTANTS
  TopicsOf,        \* topics of each source
  Catalogs,        \* catalogs of the releases: a set of [source, text, until] and the day of their review
  LegacyHeads,     \* heads that approved sources may have from before editions were kept
  ReviewDays,      \* days for which a review counts (180)
  Askers,          \* browser windows: [tab, user, organization]
  RequiredSources, \* sources an answer to a topic must have
  ReviewTopics,    \* topics that always need a reviewer
  PublicTopics,    \* topics a provider may explain
  QuotaLimit,      \* limits of "minute", "day", "company" and "month"
  MaxPairs,        \* questions and answers a conversation may hold (50)
  MinutesOfDay, DaysOfMonth, LastMinute,  \* bounds on time
  MaxEditions      \* bound on publications

VARIABLES
  clock,          \* minutes
  heads,          \* TaxSource: the edition shown and whether it is approved
  revisions,      \* TaxSourceRevision: editions staged so far
  publications,   \* TaxSourcePublication: reviewed editions, in order
  counts,         \* ChatQuota
  asking,         \* the question of each window
  messages        \* ChatMessage: the answers kept

knowledgeVars == <<clock, heads, revisions, publications, counts, asking, messages>>

Sources == DOMAIN TopicsOf
Topics == UNION {TopicsOf[s] : s \in Sources} \cup {"general"}
DayNow == clock \div MinutesOfDay

ASSUME KnowledgeAssumption ==
  /\ ReviewDays \in Nat /\ LastMinute \in Nat
  /\ MinutesOfDay \in Nat \ {0} /\ DaysOfMonth \in Nat \ {0}
  /\ PublicTopics \subseteq Topics /\ ReviewTopics \subseteq Topics
  /\ \A c \in Catalogs :
       /\ IsFiniteSet(c.items)
       /\ \A i, j \in c.items : i.source \in Sources /\ (i.source = j.source => i = j)

Absent == [edition |-> {}, approved |-> FALSE]
Silent == [step |-> "silent"]
InUse(e) == [edition |-> {e}, approved |-> TRUE]

-----------------------------------------------------------------------------
(* Editions *)

Usable(e, day) ==
  /\ 0 <= day - e.reviewed /\ day - e.reviewed <= ReviewDays
  /\ \A d \in e.until : day <= d

Published(e) == Contains(publications, e)

\* Faulty CurrentSources: an approved head is used whether or not its edition was reviewed.
CurrentSourcesByFlag ==
  {e \in UNION {heads[s].edition : s \in {t \in Sources : heads[t].approved}} : Usable(e, DayNow)}

CurrentSources ==
  {e \in revisions : /\ heads[e.source] = InUse(e)
                     /\ Usable(e, DayNow)
                     /\ Published(e)}

ApprovedSources(topic) == {e \in CurrentSources : topic \in TopicsOf[e.source]}

\* A reviewed edition becomes the head of its source.
Activated(e) == heads' = [heads EXCEPT ![e.source] = InUse(e)]
ActivateRevision(e) ==
  /\ 0 <= DayNow - e.reviewed /\ DayNow - e.reviewed <= ReviewDays
  /\ e \in revisions /\ Len(publications) < MaxEditions
  /\ Activated(e)
  /\ publications' = Append(publications, e)
  /\ UNCHANGED <<clock, revisions, counts, asking, messages>>

\* What an item of a catalog makes of the head: dates it does not give stay.
Candidate(item, reviewedOn) ==
  [source |-> item.source, text |-> item.text, reviewed |-> reviewedOn,
   until |-> IF item.until # {} THEN item.until
             ELSE UNION {e.until : e \in heads[item.source].edition}]

\* _revision: one row per source and content, and no row is ever changed or deleted.
Staged(editions) == revisions' = revisions \cup editions

\* A release stages its catalog; with a recorded review it also activates what is new or
\* was approved. One edition out of its time undoes the whole.
PublishCatalog(catalog, reviewed) ==
  LET made == {Candidate(item, catalog.reviewedOn) : item \in catalog.items}
      created == {e \in made : heads[e.source] = Absent}
      live == IF reviewed THEN {e \in made : e \in created \/ heads[e.source].approved} ELSE {}
  IN /\ Len(publications) + Cardinality(live) <= MaxEditions
     /\ \A e \in live : 0 <= DayNow - e.reviewed /\ DayNow - e.reviewed <= ReviewDays
     /\ Staged(made \cup UNION {heads[e.source].edition : e \in made})
     /\ publications' = publications \o SetToSeq(live)
     /\ heads' = [s \in Sources |->
          IF \E e \in live : e.source = s THEN InUse(CHOOSE e \in live : e.source = s)
          ELSE IF \E e \in created : e.source = s
               THEN [edition |-> {e \in created : e.source = s}, approved |-> FALSE]
               ELSE heads[s]]
     /\ UNCHANGED <<clock, counts, asking, messages>>

\* The command tax_sources: it stages, and activates one edition at a time.
TaxSourcesCommand ==
  \/ \E catalog \in Catalogs : PublishCatalog(catalog, FALSE)
  \/ \E e \in revisions : ActivateRevision(e)

-----------------------------------------------------------------------------
(* Quotas *)

Count(key) == IF key \in DOMAIN counts THEN counts[key] ELSE 0
HasRoom(key) == Count(key) < QuotaLimit[key[1]]
Counted(keys) == [k \in DOMAIN counts \cup keys |-> Count(k) + (IF k \in keys THEN 1 ELSE 0)]

RequestKeys(a) ==
  {<<"minute", a.user, clock>>, <<"day", a.user, DayNow>>, <<"company", a.organization, DayNow>>}
MonthKey == <<"month", "external", DayNow \div DaysOfMonth>>

\* The three counters rise together or not at all.
ReserveRequest(a) ==
  IF \A k \in RequestKeys(a) : HasRoom(k)
  THEN counts' = Counted(RequestKeys(a)) ELSE UNCHANGED counts

-----------------------------------------------------------------------------
(* Questions *)

Conversation(a) == {m \in messages : m.user = a.user /\ m.organization = a.organization}

\* local_answer: the stored text with what was read for it.
LocalAnswer(topic) ==
  LET cards == ApprovedSources(topic)
      supported == /\ cards # {}
                   /\ RequiredSources[topic] \subseteq {e.source : e \in cards}
  IN [step |-> "answered", topic |-> topic, cards |-> cards,
      review |-> topic \in ReviewTopics \/ (topic # "general" /\ ~supported),
      day |-> DayNow, after |-> Len(publications)]

Ask(a, topic) ==
  /\ asking[a] = Silent
  /\ Cardinality(Conversation(a)) < MaxPairs
  /\ ReserveRequest(a)
  /\ asking' = [asking EXCEPT ![a] = IF \A k \in RequestKeys(a) : HasRoom(k)
                                     THEN LocalAnswer(topic) ELSE Silent]
  /\ UNCHANGED <<clock, heads, revisions, publications, messages>>

\* openrouter_explanation: the sources are read again and the call is counted for good.
CallProvider(a) ==
  LET read == ApprovedSources(asking[a].topic)
  IN /\ asking[a].step = "answered" /\ asking[a].topic \in PublicTopics
     /\ read # {} /\ HasRoom(MonthKey)
     /\ counts' = Counted({MonthKey})
     /\ asking' = [asking EXCEPT ![a] = [step |-> "calling", local |-> asking[a], read |-> read,
                                         day |-> DayNow, after |-> Len(publications)]]
     /\ UNCHANGED <<clock, heads, revisions, publications, messages>>

\* A valid completion cites sources it was given; it may ask for a review, not waive one.
Complete(a, cards, review) ==
  /\ asking[a].step = "calling"
  /\ cards # {} /\ cards \subseteq asking[a].read
  /\ asking' = [asking EXCEPT ![a] = [step |-> "explained", topic |-> @.local.topic, cards |-> cards,
                                      review |-> @.local.review \/ review,
                                      day |-> @.day, after |-> @.after]]
  /\ UNCHANGED <<clock, heads, revisions, publications, counts, messages>>

\* ChatUnavailable: no answer, or none that passes; the stored text stands.
Unavailable(a) ==
  /\ asking[a].step = "calling"
  /\ asking' = [asking EXCEPT ![a] = [@.local EXCEPT !.step = "explained"]]
  /\ UNCHANGED <<clock, heads, revisions, publications, counts, messages>>

\* The message is kept; a public topic was tried first if the call had sources and room.
Reply(a) ==
  /\ \/ asking[a].step = "explained"
     \/ /\ asking[a].step = "answered"
        /\ ~(/\ asking[a].topic \in PublicTopics
             /\ ApprovedSources(asking[a].topic) # {} /\ HasRoom(MonthKey))
  /\ messages' = messages \cup
       {[number |-> Cardinality(messages) + 1, user |-> a.user, organization |-> a.organization,
         topic |-> asking[a].topic, cards |-> asking[a].cards, review |-> asking[a].review,
         day |-> asking[a].day, after |-> asking[a].after]}
  /\ asking' = [asking EXCEPT ![a] = Silent]
  /\ UNCHANGED <<clock, heads, revisions, publications, counts>>

\* The cards of an old message, each with whether its very edition is still in use.
HistoricalCards(m) == [e \in m.cards |-> e \in CurrentSources]
ConversationShown(a) == [m \in Conversation(a) |-> HistoricalCards(m)]

-----------------------------------------------------------------------------
Tick ==
  /\ clock < LastMinute /\ clock' = clock + 1
  /\ UNCHANGED <<heads, revisions, publications, counts, asking, messages>>

KnowledgeInit ==
  /\ clock = 0
  /\ heads \in {[s \in Sources |-> IF \E e \in legacy : e.source = s
                                   THEN InUse(CHOOSE e \in legacy : e.source = s) ELSE Absent] :
                legacy \in {{}, LegacyHeads}}
  /\ revisions = {} /\ publications = <<>>
  /\ counts = [k \in {} |-> 0]
  /\ asking = [a \in Askers |-> Silent]
  /\ messages = {}

KnowledgeNext ==
  \/ Tick
  \/ TaxSourcesCommand
  \/ \E catalog \in Catalogs : PublishCatalog(catalog, TRUE)
  \/ \E a \in Askers :
       \/ \E topic \in Topics : Ask(a, topic)
       \/ CallProvider(a)
       \/ /\ asking[a].step = "calling"
          /\ \E cards \in SUBSET asking[a].read, review \in BOOLEAN : Complete(a, cards, review)
       \/ Unavailable(a) \/ Reply(a)

KnowledgeSpec == KnowledgeInit /\ [][KnowledgeNext]_knowledgeVars

-----------------------------------------------------------------------------
LatestOf(source, n) ==
  {publications[i] : i \in {j \in 1..n :
     /\ publications[j].source = source
     /\ \A k \in j + 1 .. n : publications[k].source # source}}

\* Whatever is published while a question is answered: a kept answer cites only editions
\* of its topic that were in force, and the last ones reviewed, when its sources were read; one that
\* asks for no reviewer has the sources its topic requires; and what a page marks as
\* current is what is used today (knowledge.current_sources, historical_cards, chat_api).
CitationsHold ==
  \A m \in messages :
    /\ \A e \in m.cards :
         m.topic \in TopicsOf[e.source] /\ Usable(e, m.day) /\ LatestOf(e.source, m.after) = {e}
    /\ (~m.review /\ m.topic # "general") => m.cards # {} /\ m.topic \notin ReviewTopics
    /\ \A a \in Askers : m \in Conversation(a) =>
         \A e \in m.cards : ConversationShown(a)[m][e] =>
           Usable(e, DayNow) /\ LatestOf(e.source, Len(publications)) = {e}

\* A question that was refused is counted nowhere: what users asked in a day is what was
\* asked in their companies and, minute by minute, the same (chat.reserve_chat_request).
SumOf(kind, days) ==
  Total({[key |-> k, amount |-> counts[k]] : k \in {k \in DOMAIN counts : k[1] = kind /\ k[3] \in days}})
QuestionsCountedOnce ==
  \A day \in 0 .. DayNow :
    /\ SumOf("day", {day}) = SumOf("company", {day})
    /\ SumOf("day", {day}) = SumOf("minute", day * MinutesOfDay .. (day + 1) * MinutesOfDay - 1)

AnswersStandOnReviews == CitationsHold /\ QuestionsCountedOnce
=============================================================================
